---- MODULE Spec2Model ----
(***************************************************************************)
(* A model of flair-mcp: the token manager (src/src/flairAuth.ts), the     *)
(* retrying request executor (src/src/flairApi.ts, requestJsonApi and      *)
(* doRequest) and the session transport manager (src/unnamed/part_001,     *)
(* the express handlers of the MCP endpoint and the stale-session sweep).  *)
(*                                                                         *)
(* The program runs on one JavaScript event loop.  A macrotask (an         *)
(* incoming call, an upstream answer, a timer) runs only when the          *)
(* microtask queue is empty; the continuations of the callers awaiting one *)
(* promise are queued together when it settles and run back to back.  The  *)
(* variable mq is that queue.                                              *)
(*                                                                         *)
(* Token time is counted in seconds, session time in units of 30 minutes.   *)
(***************************************************************************)
EXTENDS Integers, Sequences, FiniteSets, Bags, TLC

\* ------------------------------------------------------------ bounds
NCallers == 2        \* concurrent executor calls
MaxRetry == 1        \* largest configured FLAIR_RETRY_MAX explored (0..8 in the code)
SkewSec == 1         \* FLAIR_TOKEN_SKEW_SEC (>= 0, default 30)
NReqs == 2           \* MCP requests handled at a time
MaxTrans == 2        \* transports created in a run
MaxClock == 2        \* the session clock stops advancing here
MaxItemsArg == 2     \* largest maxItems a listResources call is given
MaxData == 3         \* largest upstream collection a listResources call reads
MaxAttempts == 4     \* largest attempt budget of a set-and-verify (1..10 in the code)
CallDepth == 6       \* calls followed from an operation of FlairApiClient
MaxPagesArg == 2     \* largest maxPages a room-stats scan is given
PageSizeArg == 2     \* the page size a room-stats scan asks for (default 200)
MaxDepth == 3        \* nesting depth of the documents given to toJsonOutput
MaxList == 4         \* longest list given to dedupeResourcesById
MaxBackoffs == 3     \* retries of one requestJsonApi call (up to 8 in the code)

\* sessionTtlMs = 30 * 60 * 1000, in the session clock's unit of 30 minutes
sessionTtlMs == 1

Callers == 1..NCallers
Refreshes == 1..(NCallers + 1)      \* names of refreshToken() promises
ExpiresIns == {1, 3}                \* expires_in values upstream may return
Statuses == {200, 400, 401, 429, 503}
AuthValues == {TRUE}                \* every call site passes auth: true or the default
NoStatus == 0                       \* FlairApiError.statusCode === undefined
NoToken == [left |-> -1]            \* this.token === null

Methods == {"POST", "GET", "DELETE"}

VARIABLES
  now,          \* Date.now(), for the session manager
  sessions,     \* the Map sessions: session id -> SessionState
  transports,   \* the StreamableHTTPServerTransport objects created so far
  issued,       \* how many session ids sessionIdGenerator has produced
  req,          \* the app.all(config.mcpPath) handlers under way (a bag)
  sweep,        \* the cleanupStaleSessions run of the interval timer
  retryMax,     \* config.retryMax
  token,        \* FlairTokenManager.token; left = (expiresAtMs - Date.now()) / 1000
  inflight,     \* FlairTokenManager.inflight: 0 (null) or a refresh
  pending,      \* refreshes whose upstream token request is outstanding
  waiting,      \* callers suspended in `await this.inflight`, in order
  mq,           \* microtask queue: continuations of settled awaits
  call,         \* per caller: the requestJsonApi invocation it runs
  apiRootCache, \* FlairApiClient.apiRootCache: 0 (null) or the root document cached
  resolve,      \* per caller: the resolveResourcePath invocation it runs
  rootLoads,    \* history: how many root documents upstream has delivered
  list,         \* the listResources invocation under way
  verify,       \* the setVentPercentOpenAndVerify invocation under way
  writeToolsEnabled, \* config.writeToolsEnabled
  servers,      \* the tool servers built by createFlairMcpServer: their registered tools
  tool,         \* the tool call under way
  upstream,     \* history: the kinds of requests sent upstream by tool calls
  query,        \* the listVentsByRoomTemperature call under way
  scan,         \* the getLatestRoomStatsByRoom call under way
  health,       \* the app.get(config.healthPath) handler under way
  output,       \* a tool's result on its way through toJsonOutput
  dedupe,       \* a list on its way through dedupeResourcesById, twice
  backoff,      \* a retry of requestJsonApi and the wait before it
  devices       \* the listDevices call under way

apiVars == <<retryMax, token, inflight, pending, waiting, mq, call>>
sessVars == <<now, sessions, transports, issued, req, sweep>>
clientVars == <<apiRootCache, resolve, rootLoads, list, verify>>
toolVars == <<writeToolsEnabled, servers, tool, upstream, query>>
viewVars == <<scan, health, output, dedupe, backoff, devices>>
vars == <<sessVars, apiVars, clientVars, toolVars, viewVars>>

\* What a doRequest of a call ended with: nothing yet, a response with a
\* status, a rejected fetch, or a failed getAccessToken.
None == [k |-> "none", s |-> NoStatus]
NetErr == [k |-> "neterr", s |-> NoStatus]
TokFail == [k |-> "tokfail", s |-> NoStatus]
Got(status) == [k |-> "status", s |-> status]

NoResult == [kind |-> "none", status |-> NoStatus, retryable |-> FALSE]
IdleCall == [pc |-> "idle", auth |-> TRUE, attempt |-> 0, nReq |-> 0,
             last |-> None, res |-> NoResult]

\* ------------------------------------------------------ session manager

\* A handler's request (its session id header, whether it is a DELETE) and
\* its locals: the transport, and isInit and createdAt, which only the branch
\* for a request without a session computes.
NewReq == [pc |-> "start", sid |-> 0, init |-> FALSE, del |-> FALSE,
           t |-> 0, createdAt |-> 0]

\* The handlers under way with h added or removed.
Started(h) == req (+) SetToBag({h})
Ended(h) == req (-) SetToBag({h})
IdleSweep == [pc |-> "idle", cutoff |-> 0, pos |-> 0, closedN |-> 0, failedAt |-> 0]

\* line 791: isInit = req.method === "POST" && isInitializeRequest(req.body)
IsInit(method, bodyInit) == method = "POST" /\ bodyInit

\* line 787: session = sessionId ? sessions.get(sessionId) : undefined
Lookup(sid) == sid # 0 /\ sid \in DOMAIN sessions

\* Mutant: only the initialize test decides, the session id is not looked at.
RefusedByInitOnly(sid, isInit) == ~isInit

\* line 792: if (sessionId || !isInit) the request is answered 400
Refused(sid, isInit) == sid # 0 \/ ~isInit

\* Mutant: the time is written to a copy of the entry.
TouchCopy(tbl, sid) == tbl

\* line 837: session.lastSeenAt = Date.now(), on the table's own entry
Touch(tbl, sid) == [tbl EXCEPT ![sid].lastSeenAt = now]

\* Mutant: the entry stays in the table when its session is closed.
DeleteNothing(tbl, sid) == tbl

\* sessions.delete(id)
Delete(tbl, sid) == [k \in DOMAIN tbl \ {sid} |-> tbl[k]]

\* transport.close(): the transport is released (closes counts the releases).
Close(trs, t) == [trs EXCEPT ![t].st = "closed", ![t].closes = @ + 1]

\* lines 809-817: onsessioninitialized stores the entry under the new id
OnSessionInitialized(tbl, id, t, createdAt) ==
  [k \in DOMAIN tbl \cup {id} |->
     IF k = id THEN [t |-> t, createdAt |-> createdAt, lastSeenAt |-> now]
               ELSE tbl[k]]

\* Mutant: the entry is stored whether or not the transport accepted.
HandshakeAlways(ok, tbl, id, t, createdAt) == OnSessionInitialized(tbl, id, t, createdAt)

\* The transport calls onsessioninitialized only when it accepts the
\* initialize request.
Handshake(ok, tbl, id, t, createdAt) ==
  IF ok THEN OnSessionInitialized(tbl, id, t, createdAt) ELSE tbl

\* Mutant: an entry last seen exactly at the cutoff is closed too.
IsStaleInclusive(entry, cutoff) == entry.lastSeenAt <= cutoff

\* line 727: session.lastSeenAt < cutoff
IsStale(entry, cutoff) == entry.lastSeenAt < cutoff

\* A request reaches the handler: the lookup, then the 400 for a request
\* with no session that is no clean initialize, or the new server and
\* transport connected to each other (`await server.connect(transport)`
\* touches nothing another handler can see), or the refreshed lastSeenAt of
\* the session found; what is left is the call of transport.handleRequest.
ReqArrive ==
  /\ BagCardinality(req) < NReqs
  /\ \E sid \in 0..MaxTrans, method \in Methods :
     \E bodyInit \in IF method = "POST" THEN BOOLEAN ELSE {FALSE} :
       LET isInit == IsInit(method, bodyInit)
           rq == [NewReq EXCEPT !.sid = sid, !.del = (method = "DELETE")]
       IN IF ~Lookup(sid)
            THEN IF Refused(sid, isInit)
              THEN UNCHANGED <<viewVars, sessions, transports, req>>
              ELSE /\ Len(transports) < MaxTrans
                   /\ transports' = Append(transports,
                         [st |-> "connected", sid |-> 0, closes |-> 0])
                   /\ req' = Started(
                         [rq EXCEPT !.pc = "dispatch", !.t = Len(transports) + 1,
                                    !.init = isInit, !.createdAt = now])
                   /\ UNCHANGED sessions
            ELSE /\ sessions' = Touch(sessions, sid)
                 /\ req' = Started([rq EXCEPT !.pc = "dispatch", !.t = sessions[sid].t])
                 /\ UNCHANGED transports
  /\ UNCHANGED <<viewVars, now, issued, sweep, apiVars, clientVars, toolVars>>

\* transport.handleRequest on a transport that has no session yet: it accepts
\* the initialize request (the id is generated, onsessioninitialized runs) or
\* answers an error and stays uninitialized.
HandleInit(h) ==
  /\ h.pc = "dispatch"
  /\ transports[h.t].st = "connected"
  /\ \E ok \in BOOLEAN :
       /\ sessions' = Handshake(ok, sessions, issued + 1, h.t, h.createdAt)
       /\ transports' = [transports EXCEPT ![h.t] =
             IF ok THEN [@ EXCEPT !.st = "initialized", !.sid = issued + 1]
                   ELSE [@ EXCEPT !.st = "failed"]]
       /\ issued' = IF ok THEN issued + 1 ELSE issued
  /\ req' = Ended(h)
  /\ UNCHANGED <<viewVars, now, sweep, apiVars, clientVars, toolVars>>

\* transport.handleRequest on a session's transport: a DELETE closes the
\* transport, whose onclose (lines 820-825) deletes the table entry; any
\* other request is answered by the session's server.
HandleRequest(h) ==
  /\ h.pc = "dispatch"
  /\ transports[h.t].st \in {"initialized", "closed"}
  /\ LET t == h.t
         id == transports[t].sid
     IN IF h.del /\ transports[t].st = "initialized"
          THEN /\ transports' = Close(transports, t)
               /\ sessions' = Delete(sessions, id)
          ELSE UNCHANGED <<viewVars, sessions, transports>>
  /\ req' = Ended(h)
  /\ UNCHANGED <<viewVars, now, issued, sweep, apiVars, clientVars, toolVars>>

\* The entries a Map iteration that has reached pos has still to visit
\* (ids are issued in increasing order, which is the insertion order), and the
\* first of them the test of line 727 lets through.  closedN is history: how
\* many sessions the sweep has closed; failedAt is history: how many it had
\* closed when a release first threw (0: none did).
Unvisited(pos) == {k \in DOMAIN sessions : k > pos}
StaleAhead(pos, cutoff) == {k \in Unvisited(pos) : IsStale(sessions[k], cutoff)}
NextStale(pos, cutoff) ==
  CHOOSE k \in StaleAhead(pos, cutoff) : \A j \in StaleAhead(pos, cutoff) : k <= j

\* The for loop of cleanupStaleSessions from pos up to its next await: entries
\* that are not stale are passed over; the first stale one is handed to
\* closeSession, which deletes it and calls transport.close() before it
\* awaits; with none left the sweep is over.
RunSweep(pos, cutoff, n, f) ==
  IF StaleAhead(pos, cutoff) = {}
    THEN /\ sweep' = [pc |-> "done", cutoff |-> cutoff, pos |-> 0, closedN |-> n,
                      failedAt |-> f]
         /\ UNCHANGED <<viewVars, sessions, transports>>
    ELSE LET id == NextStale(pos, cutoff) IN
         /\ sessions' = Delete(sessions, id)
         /\ transports' = Close(transports, sessions[id].t)
         /\ sweep' = [pc |-> "closing", cutoff |-> cutoff, pos |-> id, closedN |-> n + 1,
                      failedAt |-> f]

\* The interval timer calls cleanupStaleSessions: the cutoff is fixed here.
SweepStart ==
  /\ sweep.pc \in {"idle", "done"}
  /\ RunSweep(0, now - sessionTtlMs, 0, 0)
  /\ UNCHANGED <<viewVars, now, issued, req, apiVars, clientVars, toolVars>>

\* History: the release of the session just closed threw, or did not.
Failure(threw) == IF threw /\ sweep.failedAt = 0 THEN sweep.closedN ELSE sweep.failedAt

\* Mutant: a release that throws is not caught; cleanupStaleSessions rejects
\* and the rest of the table is not visited.
CloseSettledRethrow(threw) ==
  IF threw
    THEN /\ sweep' = [sweep EXCEPT !.pc = "done", !.pos = 0, !.failedAt = Failure(threw)]
         /\ UNCHANGED <<viewVars, sessions, transports>>
    ELSE RunSweep(sweep.pos, sweep.cutoff, sweep.closedN, Failure(threw))

\* lines 709-721: what transport.close() or server.close() throws is caught
\* and dropped; closeSession returns and the for loop goes on.
CloseSettled(threw) == RunSweep(sweep.pos, sweep.cutoff, sweep.closedN, Failure(threw))

\* closeSession has awaited transport.close() and server.close() (nothing of
\* the table is touched in between), either of which may have thrown.
SweepResume ==
  /\ sweep.pc = "closing"
  /\ \E threw \in BOOLEAN : CloseSettled(threw)
  /\ UNCHANGED <<viewVars, now, issued, req, apiVars, clientVars, toolVars>>

\* Time passes.
Elapse ==
  /\ now < MaxClock
  /\ now' = now + 1
  /\ UNCHANGED <<viewVars, sessions, transports, issued, req, sweep, apiVars, clientVars, toolVars>>

NextSess ==
  \/ ReqArrive
  \/ \E h \in BagToSet(req) : HandleInit(h)
  \/ \E h \in BagToSet(req) : HandleRequest(h)
  \/ SweepStart
  \/ SweepResume
  \/ Elapse

\* ------------------------------------------------------ token manager

\* tokenValid(): a token is cached and now + skew is strictly before expiry
\* (nowMs + skewSec * 1000 < expiresAtMs, that is skewSec < left).
\* Mutant: the skew margin is left out of the test.
TokenValidNoSkew ==
  /\ token # NoToken
  /\ 0 < token.left

TokenValid ==
  /\ token # NoToken
  /\ SkewSec < token.left

\* Mutant: a refresh that fails drops the cached record.
ForgottenOnFailure(tok) == NoToken

\* refreshToken() throws (lines 78, 92, 99) before `this.token = token`
\* (line 113): the record is the one that was there.
KeptOnFailure(tok) == tok

\* A name for a new refreshToken() promise (no promise in use bears it).
InUse == pending \cup {waiting[i].p : i \in DOMAIN waiting}
                 \cup {mq[i].p : i \in DOMAIN mq} \cup {inflight}
NewRefresh == CHOOSE p \in Refreshes : p \notin InUse /\ \A q \in Refreshes \ InUse : p <= q

\* Mutant: the `if (!this.inflight)` test is missing.
StartsRefreshAlways == TRUE

\* `if (!this.inflight) this.inflight = this.refreshToken()`
StartsRefresh == inflight = 0

\* ---------------------------------------------------------- executor

\* Mutant: 429 is left out of the retryable statuses.
RetryableNo429(status) == status >= 500

\* Mutant: every error status is retryable.
RetryableAny(status) == status >= 400

\* line 1497: retryable = statusCode === 429 || statusCode >= 500
Retryable(status) == status = 429 \/ status >= 500

\* response.ok
IsOk(status) == status >= 200 /\ status <= 299

ApiError(status, retryable) ==
  [kind |-> "ApiError", status |-> status, retryable |-> retryable]

\* Mutant: the catch branch retries without counting the attempt.
CatchOtherUncounted(cl) ==
  IF cl.attempt < retryMax
    THEN [cl EXCEPT !.pc = "sleep"]
    ELSE [cl EXCEPT !.pc = "done", !.res = ApiError(NoStatus, TRUE)]

\* The catch branch of requestJsonApi for an error that is no FlairApiError
\* (a rejected fetch, an abort on timeout, a failed getAccessToken).
CatchOther(cl) ==
  IF cl.attempt < retryMax
    THEN [cl EXCEPT !.pc = "sleep", !.attempt = @ + 1]
    ELSE [cl EXCEPT !.pc = "done", !.res = ApiError(NoStatus, TRUE)]

\* History: what the last doRequest of the call ended with.
Noted(cl, what) == [cl EXCEPT !.last = what]

\* The try branch of requestJsonApi once doRequest has returned a response.
OnResponse(cl, status) ==
  IF IsOk(status)
    THEN [cl EXCEPT !.pc = "done",
                    !.res = [kind |-> "doc", status |-> status, retryable |-> FALSE]]
    ELSE IF Retryable(status) /\ cl.attempt < retryMax
      THEN [cl EXCEPT !.pc = "sleep", !.attempt = @ + 1]
      ELSE [cl EXCEPT !.pc = "done",
                      !.res = ApiError(status, Retryable(status))]

\* doRequest up to its first suspension: with auth, getAccessToken() either
\* returns the cached token (the fetch is issued), joins the refresh in
\* flight, or starts one (the token request is issued) and awaits it.
DoRequest(c, cl) ==
  IF ~cl.auth \/ TokenValid
    THEN /\ call' = [call EXCEPT ![c] =
                [cl EXCEPT !.pc = "fetch", !.nReq = @ + 1]]
         /\ UNCHANGED <<viewVars, inflight, pending, waiting>>
    ELSE IF StartsRefresh
      THEN /\ inflight' = NewRefresh
           /\ pending' = pending \cup {NewRefresh}
           /\ waiting' = Append(waiting, [c |-> c, p |-> NewRefresh])
           /\ call' = [call EXCEPT ![c] =
                  [cl EXCEPT !.pc = "tokenWait"]]
      ELSE /\ waiting' = Append(waiting, [c |-> c, p |-> inflight])
           /\ call' = [call EXCEPT ![c] = [cl EXCEPT !.pc = "tokenWait"]]
           /\ UNCHANGED <<viewVars, inflight, pending>>

\* ---------------------------------------------------------- actions

\* Mutant: a call may begin between two continuations of one settled await.
BetweenContinuations == TRUE

\* A call begins in a task of its own: the continuations that the settling
\* of `await this.inflight` queued have all run by then.
AfterContinuations == mq = <<>>

\* A caller invokes requestJsonApi(method, path, {auth}).
Call(c) ==
  /\ AfterContinuations
  /\ call[c].pc = "idle"
  /\ \E a \in AuthValues : DoRequest(c, [IdleCall EXCEPT !.auth = a])
  /\ UNCHANGED <<viewVars, toolVars, sessVars, clientVars, retryMax, token, mq>>

\* The issuer answers token request p (or the request fails or times out):
\* refreshToken() stores the record and resolves, or throws.  The awaiting
\* callers' continuations are queued in the order they began to wait.
SelectSeq2(s, p) == SelectSeq(s, LAMBDA w : w.p = p)
RestSeq(s, p) == SelectSeq(s, LAMBDA w : w.p # p)
JobsOf(ws, ok, tok) ==
  [i \in DOMAIN ws |-> [c |-> ws[i].c, p |-> ws[i].p, ok |-> ok, tok |-> tok]]

TokenResponse(p) ==
  /\ mq = <<>>
  /\ p \in pending
  /\ pending' = pending \ {p}
  /\ \/ \E e \in ExpiresIns :
          /\ token' = [left |-> e]
          /\ mq' = JobsOf(SelectSeq2(waiting, p), TRUE, token')
     \/ /\ token' = KeptOnFailure(token)
        /\ mq' = JobsOf(SelectSeq2(waiting, p), FALSE, NoToken)
  /\ waiting' = RestSeq(waiting, p)
  /\ UNCHANGED <<viewVars, toolVars, sessVars, clientVars, retryMax, inflight, call>>

\* The continuation of getAccessToken after `await this.inflight`: the
\* finally clause clears inflight; with a token doRequest issues the fetch,
\* with a failure the error reaches requestJsonApi's catch branch.
Resumed(cl, j) ==
  IF j.ok
    THEN [cl EXCEPT !.pc = "fetch", !.nReq = @ + 1]
    ELSE Noted(CatchOther(cl), TokFail)

RunJob ==
  /\ mq # <<>>
  /\ inflight' = 0
  /\ call' = [call EXCEPT ![Head(mq).c] = Resumed(@, Head(mq))]
  /\ mq' = Tail(mq)
  /\ UNCHANGED <<viewVars, toolVars, sessVars, clientVars, retryMax, token, pending, waiting>>

\* Upstream answers caller c's resource request with a status ...
ResourceResponse(c) ==
  /\ mq = <<>>
  /\ call[c].pc = "fetch"
  /\ \E s \in Statuses : call' = [call EXCEPT ![c] = Noted(OnResponse(@, s), Got(s))]
  /\ UNCHANGED <<viewVars, toolVars, sessVars, clientVars, retryMax, token, inflight, pending, waiting, mq>>

\* ... or the fetch rejects: a network failure, or the abort at requestTimeoutMs.
ResourceFailure(c) ==
  /\ mq = <<>>
  /\ call[c].pc = "fetch"
  /\ call' = [call EXCEPT ![c] = Noted(CatchOther(@), NetErr)]
  /\ UNCHANGED <<viewVars, toolVars, sessVars, clientVars, retryMax, token, inflight, pending, waiting, mq>>

\* The backoff sleep ends and the loop calls doRequest again.
WakeUp(c) ==
  /\ AfterContinuations
  /\ call[c].pc = "sleep"
  /\ DoRequest(c, Noted(call[c], None))
  /\ UNCHANGED <<viewVars, toolVars, sessVars, clientVars, retryMax, token, mq>>

\* The result or the error is handed to the caller.
Return(c) ==
  /\ mq = <<>>
  /\ call[c].pc = "done"
  /\ call' = [call EXCEPT ![c] = IdleCall]
  /\ UNCHANGED <<viewVars, toolVars, sessVars, clientVars, retryMax, token, inflight, pending, waiting, mq>>

\* A second passes: the cached token is a second closer to its expiry
\* (past it, every later time is the same to tokenValid).
Tick ==
  /\ mq = <<>>
  /\ token # NoToken
  /\ token.left > 0
  /\ token' = [token EXCEPT !.left = @ - 1]
  /\ UNCHANGED <<viewVars, toolVars, sessVars, clientVars, retryMax, inflight, pending, waiting, mq, call>>

InitSess ==
  /\ now = 0
  /\ sessions = <<>>
  /\ transports = <<>>
  /\ issued = 0
  /\ req = EmptyBag
  /\ sweep = IdleSweep

\* ------------------------------------------------------ resource paths

RootDocs == {1, 2}                  \* root documents upstream may answer with
ResourceTypes == {"listed", "unlisted"}
NoPath == [from |-> "none", doc |-> 0]
IdleResolve == [pc |-> "idle", type |-> "listed", path |-> NoPath]

\* lines 1464-1468: the self link of the type's entry in the root links, or
\* the path built from config.flairApiRootPath when the type has no entry.
PathOf(doc, type) ==
  IF type = "listed" THEN [from |-> "self", doc |-> doc]
                     ELSE [from |-> "rootPath", doc |-> 0]

\* line 657: if (!force && this.apiRootCache) return this.apiRootCache
CacheHit(cache) == cache # 0

\* resolveResourcePath(type) calls getApiRootLinks(): with the cache set it
\* resolves from it; otherwise the root document is requested.
ResolveStart(c) ==
  /\ resolve[c].pc = "idle"
  /\ \E type \in ResourceTypes :
       resolve' = [resolve EXCEPT ![c] =
         IF CacheHit(apiRootCache)
           THEN [pc |-> "done", type |-> type, path |-> PathOf(apiRootCache, type)]
           ELSE [pc |-> "root", type |-> type, path |-> NoPath]]
  /\ UNCHANGED <<viewVars, toolVars, sessVars, apiVars, apiRootCache, rootLoads, list, verify>>

\* requestJsonApi returns the root document, whose links are stored in the
\* cache (lines 666-673) ...
RootResponse(c) ==
  /\ resolve[c].pc = "root"
  /\ \E doc \in RootDocs :
       /\ apiRootCache' = doc
       /\ resolve' = [resolve EXCEPT ![c].pc = "done", ![c].path = PathOf(doc, resolve[c].type)]
  /\ rootLoads' = rootLoads + 1
  /\ UNCHANGED <<viewVars, toolVars, sessVars, apiVars, list, verify>>

\* ... or it throws, or the links do not parse (line 669): the call throws
\* and the cache is left as it was.
RootFailure(c) ==
  /\ resolve[c].pc = "root"
  /\ resolve' = [resolve EXCEPT ![c].pc = "failed"]
  /\ UNCHANGED <<viewVars, toolVars, sessVars, apiVars, apiRootCache, rootLoads, list, verify>>

\* The path, or the error, is handed to the operation that asked.
ResolveReturn(c) ==
  /\ resolve[c].pc \in {"done", "failed"}
  /\ resolve' = [resolve EXCEPT ![c] = IdleResolve]
  /\ UNCHANGED <<viewVars, toolVars, sessVars, apiVars, apiRootCache, rootLoads, list, verify>>

NextRoot ==
  \/ \E c \in Callers : ResolveStart(c)
  \/ \E c \in Callers : RootResponse(c)
  \/ \E c \in Callers : RootFailure(c)
  \/ \E c \in Callers : ResolveReturn(c)

\* ------------------------------------------------------ paginated fetch

PageCeiling == 20                   \* line 723: if (pagesFetched >= 20) break
Ids == {1, 2}                       \* resource ids upstream puts in data
\* Sequences over S of length at most n.
UpTo(S, n) == UNION {[1..k -> S] : k \in 0..n}

\* An included resource: its key (type:id) and a version, to tell two
\* resource objects of one key apart.
Inc(k, v) == [key |-> k, ver |-> v]

\* The included arrays a page may carry: none, one resource, the same
\* resource changed, two resources, one resource twice.
IncludedPages ==
  {<<>>, <<Inc("a", 1)>>, <<Inc("a", 2)>>, <<Inc("b", 1)>>,
   <<Inc("a", 1), Inc("b", 1)>>, <<Inc("a", 1), Inc("a", 2)>>}

IdleList == [pc |-> "idle", maxItems |-> 0, avail |-> 0, data |-> <<>>, included |-> <<>>,
             pagesFetched |-> 0, visitedNext |-> {}, nextLink |-> 0,
             asked |-> <<>>, lastNext |-> 0, latest |-> <<>>]

\* lines 542-552: a Map keyed by type:id, filled from base and then from
\* incoming; a key set again keeps its place and takes the new value.
MapSet(m, e) ==
  IF \E i \in DOMAIN m : m[i].key = e.key
    THEN [i \in DOMAIN m |-> IF m[i].key = e.key THEN e ELSE m[i]]
    ELSE Append(m, e)

RECURSIVE MapSetAll(_, _)
MapSetAll(m, items) ==
  IF items = <<>> THEN m ELSE MapSetAll(MapSet(m, Head(items)), Tail(items))

\* Mutant: an entry already in the map is kept (the first page wins).
MergeKeepingFirst(base, incoming) ==
  MapSetAll(MapSetAll(<<>>, incoming), base)

mergeIncludedResources(base, incoming) ==
  IF base = <<>> /\ incoming = <<>> THEN <<>>
  ELSE MapSetAll(MapSetAll(<<>>, base), incoming)

\* Mutant: a dropped resource is not counted.
RECURSIVE dedupeUncounted(_, _, _)
dedupeUncounted(resources, unique, duplicates) ==
  IF resources = <<>> THEN [unique |-> unique, duplicates |-> duplicates]
  ELSE IF \E i \in DOMAIN unique : unique[i] = Head(resources)
    THEN dedupeUncounted(Tail(resources), unique, duplicates)
    ELSE dedupeUncounted(Tail(resources), Append(unique, Head(resources)), duplicates)

\* lines 554-569: the first resource of each id, and how many were dropped.
RECURSIVE dedupeResourcesById(_, _, _)
dedupeResourcesById(resources, unique, duplicates) ==
  IF resources = <<>> THEN [unique |-> unique, duplicates |-> duplicates]
  ELSE IF \E i \in DOMAIN unique : unique[i] = Head(resources)
    THEN dedupeResourcesById(Tail(resources), unique, duplicates + 1)
    ELSE dedupeResourcesById(Tail(resources), Append(unique, Head(resources)), duplicates)

\* History: for each key, the version in the latest page that held it.
Latest(latest, items) ==
  [k \in DOMAIN latest \cup {items[i].key : i \in DOMAIN items} |->
     IF \E i \in DOMAIN items : items[i].key = k
       THEN items[CHOOSE i \in DOMAIN items :
                    items[i].key = k /\ \A j \in DOMAIN items : items[j].key = k => j <= i].ver
       ELSE latest[k]]

\* Mutant: the result is never cut.
SliceNever(data, maxItems) == data

\* lines 728-730: if (maxItems && data.length > maxItems) data = data.slice(0, maxItems)
Slice(data, maxItems) ==
  IF maxItems # 0 /\ Len(data) > maxItems THEN SubSeq(data, 1, maxItems) ELSE data

\* Mutant: the ceiling is tested one page late.
CeilingReachedLate(pagesFetched) == pagesFetched > PageCeiling

\* line 723: pagesFetched >= 20
CeilingReached(pagesFetched) == pagesFetched >= PageCeiling

\* Mutant: the visited set is not consulted.
VisitedNever(l) == FALSE

\* line 710: visitedNext.has(nextLink)
Visited(l) == l.nextLink \in l.visitedNext

\* lines 728-737: the loop is left; data is cut to maxItems and returned.
Finish(l) == [l EXCEPT !.pc = "done", !.data = Slice(l.data, l.maxItems)]

\* lines 709-713: the while test, the visited test, and the request of the
\* next link.
Continue(l) ==
  IF l.nextLink # 0 /\ (l.maxItems = 0 \/ Len(l.data) < l.maxItems)
    THEN IF Visited(l)
      THEN Finish(l)
      ELSE [l EXCEPT !.pc = "page",
                     !.visitedNext = @ \cup {l.nextLink},
                     !.asked = Append(@, l.nextLink)]
    ELSE Finish(l)

\* The next links upstream may answer with: none (0), one never seen, or one
\* already followed (links are only tested for membership in visitedNext, so
\* a new one is named by the next number and the last one followed stands
\* for all that were).
NewLink(l) == Cardinality(l.visitedNext) + 1
NextLinks(l) == {0, NewLink(l)} \cup {j \in l.visitedNext : j = NewLink(l) - 1}

\* The documents upstream may answer a page request with: some of the
\* l.avail resources of the collection that were not delivered yet, and no
\* next link only with the last of them.
Docs(l) ==
  {doc \in [data : UpTo(Ids, l.avail - Len(l.data)),
            included : IncludedPages,
            next : NextLinks(l)] :
     doc.next = 0 => Len(l.data) + Len(doc.data) = l.avail}

\* listResources(type, {maxItems}): the path is resolved (line 698), from
\* the cache or by a request of the root document.
ListStart ==
  /\ list.pc = "idle"
  /\ \E n \in 0..MaxItemsArg, size \in 0..MaxData :
       list' = [IdleList EXCEPT !.maxItems = n, !.avail = size,
                  !.pc = IF CacheHit(apiRootCache) THEN "first" ELSE "root"]
  /\ UNCHANGED <<viewVars, toolVars, sessVars, apiVars, apiRootCache, resolve, rootLoads, verify>>

\* The root document arrives, is cached, and the first page is requested.
ListRoot ==
  /\ list.pc = "root"
  /\ \E doc \in RootDocs : apiRootCache' = doc
  /\ rootLoads' = rootLoads + 1
  /\ list' = [list EXCEPT !.pc = "first"]
  /\ UNCHANGED <<viewVars, toolVars, sessVars, apiVars, resolve, verify>>

\* lines 701-707: the first page.
ListFirstPage ==
  /\ list.pc = "first"
  /\ \E doc \in Docs(list) :
       list' = Continue([list EXCEPT !.data = doc.data,
                                     !.included = doc.included,
                                     !.pagesFetched = 1,
                                     !.nextLink = doc.next,
                                     !.lastNext = doc.next,
                                     !.latest = Latest(@, doc.included)])
  /\ UNCHANGED <<viewVars, toolVars, sessVars, apiVars, apiRootCache, resolve, rootLoads, verify>>

\* lines 713-725: a later page is added, then the ceiling test, the next
\* link and the loop's tests again.
ListNextPage ==
  /\ list.pc = "page"
  /\ \E doc \in Docs(list) :
       LET l == [list EXCEPT !.data = @ \o doc.data,
                             !.included = mergeIncludedResources(@, doc.included),
                             !.pagesFetched = @ + 1,
                             !.lastNext = doc.next,
                             !.latest = Latest(@, doc.included)]
       IN list' = IF CeilingReached(l.pagesFetched)
                    THEN Finish(l)
                    ELSE Continue([l EXCEPT !.nextLink = doc.next])
  /\ UNCHANGED <<viewVars, toolVars, sessVars, apiVars, apiRootCache, resolve, rootLoads, verify>>

\* A request of the call throws (requestJsonApi gave up): so does the call.
ListFailure ==
  /\ list.pc \in {"root", "first", "page"}
  /\ list' = [list EXCEPT !.pc = "failed"]
  /\ UNCHANGED <<viewVars, toolVars, sessVars, apiVars, apiRootCache, resolve, rootLoads, verify>>

NextList ==
  \/ ListStart
  \/ ListRoot
  \/ ListFirstPage
  \/ ListNextPage
  \/ ListFailure

\* ------------------------------------------------------ set and verify

Percents == {10, 30}                \* percent-open values commanded and reported
Errors == {1, 2}                    \* messages of the errors a poll may throw
NoError == 0                        \* lastError === null
DefaultError == 3                   \* "Expected vent percent-open value was not observed ..."

Num(v) == [k |-> "num", v |-> v]    \* toNumber gave a number
NoNumber == [k |-> "nan", v |-> 0]  \* toNumber gave undefined, or no resource
Null == [k |-> "null", v |-> 0]     \* lastActualPercentOpen === null
Thrown(e) == [k |-> "err", v |-> e]

\* What one poll may end in: a reading, no numeric reading, an error.
Outcomes == {Num(p) : p \in Percents} \cup {NoNumber} \cup {Thrown(e) : e \in Errors}

NoVerification == [ok |-> FALSE, actualPercentOpen |-> Null, attemptsUsed |-> 0,
             commandResponse |-> FALSE, error |-> NoError]

IdleVerify == [pc |-> "idle", percentOpen |-> 10, attempts |-> 1, commandResponse |-> FALSE,
               attempt |-> 0, lastActualPercentOpen |-> Null, lastError |-> NoError,
               writes |-> 0, polls |-> 0, obs |-> <<>>, result |-> NoVerification]

\* Mutant: the reading is never taken to be the commanded value.
MatchesNever(actual, percentOpen) == FALSE

\* line 863: actualPercentOpen === percentOpen
Matches(actual, percentOpen) == actual = percentOpen

\* lines 884-893: the budget is used up.
Exhausted(v) ==
  [v EXCEPT !.pc = "done",
            !.result = [ok |-> FALSE,
                        actualPercentOpen |-> v.lastActualPercentOpen,
                        attemptsUsed |-> v.attempts,
                        commandResponse |-> v.commandResponse,
                        error |-> IF v.lastError = NoError THEN DefaultError ELSE v.lastError]]

\* lines 853-854: the loop test, then the sleep before the poll.
Loop(v) == IF v.attempt <= v.attempts THEN [v EXCEPT !.pc = "sleep"] ELSE Exhausted(v)

\* lines 864-873: the commanded value was read.
Verified(v, actual) ==
  [v EXCEPT !.pc = "done",
            !.result = [ok |-> TRUE,
                        actualPercentOpen |-> Num(actual),
                        attemptsUsed |-> v.attempt,
                        commandResponse |-> v.commandResponse,
                        error |-> NoError]]

\* setVentPercentOpenAndVerify(ventId, percentOpen, attempts, ...): the
\* write's path is resolved, from the cache or by a request of the root
\* document, and the write is sent.
VerifyStart ==
  /\ verify.pc = "idle"
  /\ \E p \in Percents, n \in 1..MaxAttempts :
       verify' = [IdleVerify EXCEPT !.percentOpen = p, !.attempts = n,
                    !.pc = IF CacheHit(apiRootCache) THEN "write" ELSE "root",
                    !.writes = IF CacheHit(apiRootCache) THEN 1 ELSE 0]
  /\ UNCHANGED <<viewVars, toolVars, sessVars, apiVars, apiRootCache, resolve, rootLoads, list>>

VerifyRoot ==
  /\ verify.pc = "root"
  /\ \E doc \in RootDocs : apiRootCache' = doc
  /\ rootLoads' = rootLoads + 1
  /\ verify' = [verify EXCEPT !.pc = "write", !.writes = @ + 1]
  /\ UNCHANGED <<viewVars, toolVars, sessVars, apiVars, resolve, list>>

\* line 847: the write is answered; lines 849-853.
WriteResponse ==
  /\ verify.pc = "write"
  /\ verify' = Loop([verify EXCEPT !.commandResponse = TRUE, !.attempt = 1])
  /\ UNCHANGED <<viewVars, toolVars, sessVars, apiVars, apiRootCache, resolve, rootLoads, list>>

\* line 847: the write (or the root request before it) throws, outside any
\* try: so does the operation.
WriteFailure ==
  /\ verify.pc \in {"root", "write"}
  /\ verify' = [verify EXCEPT !.pc = "failed"]
  /\ UNCHANGED <<viewVars, toolVars, sessVars, apiVars, apiRootCache, resolve, rootLoads, list>>

\* lines 854-858: the sleep is over and the vent is requested.
Poll ==
  /\ verify.pc = "sleep"
  /\ verify' = [verify EXCEPT !.pc = "poll", !.polls = @ + 1]
  /\ UNCHANGED <<viewVars, toolVars, sessVars, apiVars, apiRootCache, resolve, rootLoads, list>>

\* lines 858-882: the poll ends; attempt += 1 and the loop test.
PollSettled ==
  /\ verify.pc = "poll"
  /\ \E o \in Outcomes :
       LET v == [verify EXCEPT !.obs = Append(@, o)]
           next(w) == Loop([w EXCEPT !.attempt = @ + 1])
       IN verify' =
            CASE o.k = "num" ->
                   IF Matches(o.v, v.percentOpen)
                     THEN Verified(v, o.v)
                     ELSE next([v EXCEPT !.lastActualPercentOpen = o])
              [] o.k = "nan" -> next([v EXCEPT !.lastActualPercentOpen = Null])
              [] OTHER -> next([v EXCEPT !.lastError = o.v])
  /\ UNCHANGED <<viewVars, toolVars, sessVars, apiVars, apiRootCache, resolve, rootLoads, list>>

\* The result, or the error, is handed to the caller.
VerifyReturn ==
  /\ verify.pc \in {"done", "failed"}
  /\ verify' = IdleVerify
  /\ UNCHANGED <<viewVars, toolVars, sessVars, apiVars, apiRootCache, resolve, rootLoads, list>>

NextVerify ==
  \/ VerifyStart
  \/ VerifyRoot
  \/ WriteResponse
  \/ WriteFailure
  \/ Poll
  \/ PollSettled
  \/ VerifyReturn


InitClient ==
  /\ apiRootCache = 0
  /\ resolve = [c \in Callers |-> IdleResolve]
  /\ rootLoads = 0
  /\ list = IdleList
  /\ verify = IdleVerify

\* ------------------------------------------------------ tool server

ReadTools ==
  {"health_check", "list_resource_types", "list_structures", "list_rooms",
   "list_vents", "list_devices", "list_named_devices", "list_room_temperatures",
   "list_device_room_temperatures", "list_vents_with_room_temperatures",
   "list_open_vents_in_cold_rooms", "list_vents_by_room_temperature",
   "list_resources", "get_resource", "get_related_resources"}

WriteTools ==
  {"update_resource_attributes", "create_resource", "set_vent_percent_open",
   "set_vent_percent_open_and_verify"}

\* The write tools whose schema has a dry_run flag.
DryRunTools == {"update_resource_attributes", "create_resource", "set_vent_percent_open"}

\* Mutant: the write tools are registered whatever the configuration.
RegisteredAlways(enabled) == ReadTools \cup WriteTools

\* createFlairMcpServer: the server.tool registrations, the last four
\* inside `if (config.writeToolsEnabled)`.
Registered(enabled) == ReadTools \cup (IF enabled THEN WriteTools ELSE {})

\* The FlairApiClient operation a tool's handler calls.
OperationOf(name) ==
  CASE name \in {"health_check", "list_resource_types"} -> "listResourceTypes"
    [] name = "list_structures" -> "listStructures"
    [] name = "list_rooms" -> "listRooms"
    [] name = "list_vents" -> "listVents"
    [] name = "list_devices" -> "listDevices"
    [] name = "list_named_devices" -> "listNamedDevices"
    [] name = "list_room_temperatures" -> "listRoomTemperatures"
    [] name = "list_device_room_temperatures" -> "listDeviceRoomTemperatures"
    [] name = "list_vents_with_room_temperatures" -> "listVentsWithRoomTemperatures"
    [] name = "list_open_vents_in_cold_rooms" -> "listOpenVentsInColdRooms"
    [] name = "list_vents_by_room_temperature" -> "listVentsByRoomTemperature"
    [] name = "list_resources" -> "listResources"
    [] name = "get_resource" -> "getResource"
    [] name = "get_related_resources" -> "getRelatedResources"
    [] name = "update_resource_attributes" -> "updateResourceAttributes"
    [] name = "create_resource" -> "createResource"
    [] name = "set_vent_percent_open" -> "setVentPercentOpen"
    [] OTHER -> "setVentPercentOpenAndVerify"

\* The operations an operation of FlairApiClient calls, by its body.
Calls(op) ==
  CASE op = "listResourceTypes" -> {"getApiRootLinks"}
    [] op = "resolveResourcePath" -> {"getApiRootLinks"}
    [] op = "listResources" -> {"resolveResourcePath"}
    [] op = "getResource" -> {"resolveResourcePath"}
    [] op = "getRelatedResources" -> {"getResource", "resolveResourcePath"}
    [] op = "updateResourceAttributes" -> {"resolveResourcePath"}
    [] op = "createResource" -> {"resolveResourcePath"}
    [] op = "setVentPercentOpen" -> {"createResource"}
    [] op = "setVentPercentOpenAndVerify" -> {"setVentPercentOpen", "getResource"}
    [] op \in {"listStructures", "listRooms", "listVents", "listDevices", "listNamedDevices"}
         -> {"listResources"}
    [] op = "listRoomTemperatures" -> {"listRooms", "getLatestRoomStatsByRoom"}
    [] op = "listDeviceRoomTemperatures"
         -> {"listNamedDevices", "listRooms", "getLatestRoomStatsByRoom"}
    [] op = "listVentsWithRoomTemperatures"
         -> {"listResources", "listRooms", "getLatestRoomStatsByRoom"}
    [] op = "listVentsByRoomTemperature" -> {"listVentsWithRoomTemperatures"}
    [] op = "listOpenVentsInColdRooms" -> {"listVentsByRoomTemperature"}
    [] op = "getLatestRoomStatsByRoom" -> {"resolveResourcePath"}
    [] OTHER -> {}

\* Mutant: the room statistics are asked for with a POST.
RequestsStatsByPost(op) ==
  CASE op \in {"getApiRootLinks", "listResources", "getResource", "getRelatedResources"} -> {"GET"}
    [] op \in {"createResource", "getLatestRoomStatsByRoom"} -> {"POST"}
    [] op = "updateResourceAttributes" -> {"PATCH"}
    [] OTHER -> {}

\* The method of the requestJsonApi calls in an operation's own body.
Requests(op) ==
  CASE op \in {"getApiRootLinks", "listResources", "getResource", "getRelatedResources",
               "getLatestRoomStatsByRoom"} -> {"GET"}
    [] op = "updateResourceAttributes" -> {"PATCH"}
    [] op = "createResource" -> {"POST"}
    [] OTHER -> {}

\* The operations reached from op (the call graph is six calls deep).
RECURSIVE Reached(_, _)
Reached(ops, depth) ==
  IF depth = 0 THEN ops
  ELSE Reached(ops \cup UNION {Calls(o) : o \in ops}, depth - 1)

\* The methods of the resource requests an operation can issue.
MethodsOf(op) == UNION {Requests(o) : o \in Reached({op}, CallDepth)}

\* ---- payloads

ResourceTypeArgs == {"rooms"}
IdArgs == {"r1"}
AttributeArgs == {[name |-> "name", value |-> 1]}
RelationshipArgs == {"absent", "empty", "some"}   \* undefined, {}, a non-empty record

NoInput == [type |-> "rooms", id |-> "r1", attributes |-> [name |-> "name", value |-> 1],
            relationships |-> "absent", percentOpen |-> 10, dryRun |-> FALSE]

\* The arguments a tool may be called with (dry_run defaults to false, and
\* only the three tools of DryRunTools have it).
InputsOf(name) ==
  {i \in [type : ResourceTypeArgs, id : IdArgs, attributes : AttributeArgs,
          relationships : RelationshipArgs, percentOpen : Percents, dryRun : BOOLEAN] :
     /\ i.dryRun => name \in DryRunTools
     /\ i.relationships # "absent" => name = "create_resource"
     /\ i.percentOpen # 10 => name \in {"set_vent_percent_open", "set_vent_percent_open_and_verify"}}

NoPayload == [data |-> FALSE, type |-> "none", id |-> "none",
              attributes |-> [name |-> "none", value |-> 0], relationships |-> "absent"]

\* updateResourceAttributes: payload = {data: {type, id, attributes}}
UpdatePayload(type, id, attributes) ==
  [data |-> TRUE, type |-> type, id |-> id, attributes |-> attributes,
   relationships |-> "absent"]

\* createResource: payload = {data: {type, attributes}}, with relationships
\* only if given and Object.keys(relationships).length > 0
CreatePayload(type, attributes, relationships) ==
  [data |-> TRUE, type |-> type, id |-> "none", attributes |-> attributes,
   relationships |-> IF relationships \in {"absent", "empty"} THEN "absent" ELSE relationships]

\* setVentPercentOpen: createResource("vent-states", {"percent-open": p},
\* {vent: {data: {type: "vents", id}}})
VentPayload(percentOpen) ==
  CreatePayload("vent-states", [name |-> "percent-open", value |-> percentOpen], "vent")

\* The body of the write request the operation of a write tool sends.
SentPayload(name, i) ==
  CASE name = "update_resource_attributes" -> UpdatePayload(i.type, i.id, i.attributes)
    [] name = "create_resource" -> CreatePayload(i.type, i.attributes, i.relationships)
    [] OTHER -> VentPayload(i.percentOpen)

\* The payload field of a tool's dry_run answer: for create_resource the
\* relationships are spread in when truthy (an empty record is), and for
\* set_vent_percent_open the resource object is not wrapped in data.
DryRunPayload(name, i) ==
  CASE name = "update_resource_attributes" ->
         [data |-> TRUE, type |-> i.type, id |-> i.id, attributes |-> i.attributes,
          relationships |-> "absent"]
    [] name = "create_resource" ->
         [data |-> TRUE, type |-> i.type, id |-> "none", attributes |-> i.attributes,
          relationships |-> i.relationships]
    [] OTHER ->
         [data |-> FALSE, type |-> "vent-states", id |-> "none",
          attributes |-> [name |-> "percent-open", value |-> i.percentOpen],
          relationships |-> "vent"]

\* ---- the calls

TokenRequest == [api |-> "token", method |-> "POST"]
ResourceRequest(m) == [api |-> "resource", method |-> m]

IdleTool == [pc |-> "idle", server |-> 0, name |-> "health_check", input |-> NoInput,
             sent |-> {}, body |-> NoPayload, out |-> NoPayload]

\* line 803: the handler of an initialize request builds the session's
\* tool server.
CreateServer ==
  /\ Len(servers) < MaxTrans
  /\ servers' = Append(servers, Registered(writeToolsEnabled))
  /\ UNCHANGED <<viewVars, sessVars, apiVars, clientVars, writeToolsEnabled, tool, upstream, query>>

\* A tools/call for a tool the session's server has registered: the
\* handler runs; with dry_run it answers at once.
ToolCall ==
  /\ tool.pc = "idle"
  /\ \E s \in DOMAIN servers : \E name \in servers[s] : \E i \in InputsOf(name) :
       tool' = [IdleTool EXCEPT !.server = s, !.name = name, !.input = i,
                  !.pc = IF i.dryRun THEN "done" ELSE "run",
                  !.out = IF i.dryRun THEN DryRunPayload(name, i) ELSE NoPayload]
  /\ UNCHANGED <<viewVars, sessVars, apiVars, clientVars, writeToolsEnabled, servers, upstream, query>>

\* A tools/call for a name the session's server has not registered: no
\* handler runs.
ToolUnknown ==
  /\ tool.pc = "idle"
  /\ \E s \in DOMAIN servers : \E name \in (ReadTools \cup WriteTools) \ servers[s] :
       tool' = [IdleTool EXCEPT !.server = s, !.name = name, !.pc = "unknown"]
  /\ UNCHANGED <<viewVars, sessVars, apiVars, clientVars, writeToolsEnabled, servers, upstream, query>>

\* The operation's next upstream request: a token request when
\* getAccessToken refreshes, or a resource request of a method the
\* operation issues; a write request carries the operation's payload.
ToolRequest ==
  /\ tool.pc = "run"
  /\ \E r \in {TokenRequest} \cup {ResourceRequest(m) : m \in MethodsOf(OperationOf(tool.name))} :
       /\ tool' = [tool EXCEPT !.sent = @ \cup {r},
                     !.body = IF r.api = "resource" /\ r.method \in {"POST", "PATCH"}
                                THEN SentPayload(tool.name, tool.input) ELSE @]
       /\ upstream' = upstream \cup {r}
  /\ UNCHANGED <<viewVars, sessVars, apiVars, clientVars, writeToolsEnabled, servers, query>>

\* The operation returns or throws, and the handler answers.
ToolDone ==
  /\ tool.pc = "run"
  /\ tool' = [tool EXCEPT !.pc = "done"]
  /\ UNCHANGED <<viewVars, sessVars, apiVars, clientVars, writeToolsEnabled, servers, upstream, query>>

ToolReturn ==
  /\ tool.pc \in {"done", "unknown"}
  /\ tool' = IdleTool
  /\ UNCHANGED <<viewVars, sessVars, apiVars, clientVars, writeToolsEnabled, servers, upstream, query>>

NextTools ==
  \/ CreateServer
  \/ ToolCall
  \/ ToolUnknown
  \/ ToolRequest
  \/ ToolDone
  \/ ToolReturn

\* ------------------------------------------------------ vents by room temperature

\* An optional number: given with a value, or undefined.
Some(v) == [given |-> TRUE, v |-> v]
Absent == [given |-> FALSE, v |-> 0]

\* Temperatures are kept in ninths of a degree Celsius, in which both a
\* whole Celsius and a whole Fahrenheit value are whole numbers.
\* lines 1312-1316: tempC if given, else (tempF - 32) * (5 / 9), else undefined
toCelsius(tempC, tempF) ==
  IF tempC.given THEN Some(9 * tempC.v)
  ELSE IF tempF.given THEN Some(5 * (tempF.v - 32))
  ELSE Absent

Operators == {"lt", "lte", "gt", "gte", "between"}
VentStates == {"open", "closed", "any"}

\* The options a caller may pass (each field may be left out).
OptionSets ==
  [temperatureOperator : Operators \cup {"absent"},
   thresholdTempC : {Absent, Some(21)},
   thresholdTempF : {Absent, Some(70)},
   minTempC : {Absent},
   minTempF : {Absent, Some(65), Some(75)},
   maxTempC : {Absent},
   maxTempF : {Absent, Some(65), Some(75)},
   ventState : VentStates \cup {"absent"},
   minPercentOpen : {Absent, Some(0), Some(50)},
   maxPercentOpen : {Absent, Some(50)},
   includeUnknownTemperature : {"absent", "true"}]

\* listVentsByRoomTemperatureSchema: the zod defaults of the tool's input.
SchemaDefaults(input) ==
  [input EXCEPT
     !.temperatureOperator = IF @ = "absent" THEN "lt" ELSE @,
     !.ventState = IF @ = "absent" THEN "open" ELSE @,
     !.minPercentOpen = IF @.given THEN @ ELSE Some(1),
     !.includeUnknownTemperature = IF @ = "absent" THEN "false" ELSE @]

\* What reaches listVentsByRoomTemperature: the tool's handler passes its
\* parsed input field by field, another caller its own options.
Passed(via, options) == IF via = "tool" THEN SchemaDefaults(options) ELSE options

\* line 1318: options.temperatureOperator ?? "lt"
OperatorOf(o) == IF o.temperatureOperator = "absent" THEN "lt" ELSE o.temperatureOperator

\* line 1336: options.ventState ?? "open"
VentStateOf(o) == IF o.ventState = "absent" THEN "open" ELSE o.ventState

\* line 1337: the given minPercentOpen, else 1 for ventState open and 0 otherwise
MinPercentOf(o) ==
  IF o.minPercentOpen.given THEN o.minPercentOpen.v
  ELSE IF VentStateOf(o) = "open" THEN 1 ELSE 0

\* Mutant: only between is validated.
InvalidOnlyBetween(operator, thresholdC, minTempC, maxTempC) ==
  operator = "between" /\ (~minTempC.given \/ ~maxTempC.given)

\* lines 1323-1334: the two throws
Invalid(operator, thresholdC, minTempC, maxTempC) ==
  IF operator = "between"
    THEN ~minTempC.given \/ ~maxTempC.given
    ELSE ~thresholdC.given

\* Mutant: the bounds are used as given.
AsGiven(minTempC, maxTempC) == [min |-> minTempC, max |-> maxTempC]

\* lines 1327-1331: the bounds are swapped when min > max
Ordered(minTempC, maxTempC) ==
  IF minTempC > maxTempC
    THEN [min |-> maxTempC, max |-> minTempC]
    ELSE [min |-> minTempC, max |-> maxTempC]

\* Mutant: lt lets the threshold itself through.
matchesTempInclusive(operator, thresholdC, bounds, tempC) ==
  CASE operator = "between" -> tempC >= bounds.min /\ tempC <= bounds.max
    [] operator = "lt" -> tempC <= thresholdC
    [] operator = "lte" -> tempC <= thresholdC
    [] operator = "gt" -> tempC > thresholdC
    [] OTHER -> tempC >= thresholdC

\* lines 1351-1359
matchesTemp(operator, thresholdC, bounds, tempC) ==
  CASE operator = "between" -> tempC >= bounds.min /\ tempC <= bounds.max
    [] operator = "lt" -> tempC < thresholdC
    [] operator = "lte" -> tempC <= thresholdC
    [] operator = "gt" -> tempC > thresholdC
    [] OTHER -> tempC >= thresholdC

\* The vents listVentsWithRoomTemperatures returns (lines 1224-1242): with
\* or without percent_open, is_open derived from it, and with or without
\* the temperature of the room.
PercentValues == {Absent, Some(0), Some(1), Some(50)}
RoomTemps == {Absent, Some(165), Some(190), Some(215)}   \* unknown, 65, 70 and 75 F

VentOf(percentOpen, tempC) ==
  [percent_open |-> percentOpen,
   is_open |-> IF percentOpen.given THEN (IF percentOpen.v > 0 THEN "true" ELSE "false")
               ELSE "absent",
   room_temperature_c |-> tempC]

Vents == {VentOf(p, t) : p \in PercentValues, t \in RoomTemps}

\* Mutant: a vent reporting 0 percent counts as open.
IsOpenFromZero(vent) ==
  IF vent.percent_open.given THEN vent.percent_open.v >= 0 ELSE vent.is_open = "true"

\* lines 1362-1363
IsOpen(vent) ==
  IF vent.percent_open.given THEN vent.percent_open.v > 0 ELSE vent.is_open = "true"

\* Mutant: vents of rooms without a temperature are always let through.
IncludeUnknownAlways(o) == TRUE

\* line 1339: options.includeUnknownTemperature ?? false
IncludeUnknownOf(o) == o.includeUnknownTemperature = "true"

\* lines 1361-1375: the filter's verdict on one vent
Keeps(o, bounds, vent) ==
  LET thresholdC == toCelsius(o.thresholdTempC, o.thresholdTempF)
  IN /\ VentStateOf(o) = "open" => IsOpen(vent)
     /\ VentStateOf(o) = "closed" => ~IsOpen(vent)
     /\ vent.percent_open.given =>
          /\ vent.percent_open.v >= MinPercentOf(o)
          /\ o.maxPercentOpen.given => vent.percent_open.v <= o.maxPercentOpen.v
     /\ IF vent.room_temperature_c.given
          THEN matchesTemp(OperatorOf(o), thresholdC.v, bounds, vent.room_temperature_c.v)
          ELSE IncludeUnknownOf(o)

\* lines 1318-1334, up to the first await: validation of the options
Rejects(o) ==
  Invalid(OperatorOf(o), toCelsius(o.thresholdTempC, o.thresholdTempF),
          toCelsius(o.minTempC, o.minTempF), toCelsius(o.maxTempC, o.maxTempF))

\* lines 1323-1375: the vents the call returns for valid options
Selected(o) ==
  LET bounds == IF OperatorOf(o) = "between"
                  THEN Ordered(toCelsius(o.minTempC, o.minTempF).v,
                               toCelsius(o.maxTempC, o.maxTempF).v)
                  ELSE [min |-> 0, max |-> 0]
  IN {vent \in Vents : Keeps(o, bounds, vent)}

IdleQuery == [pc |-> "idle", via |-> "client", options |-> CHOOSE o \in OptionSets : TRUE,
              requests |-> 0, out |-> {}]

\* A call of the list_vents_by_room_temperature tool, or of
\* listVentsByRoomTemperature by another caller, with some options.
InitQuery ==
  \E via \in {"tool", "client"}, o \in OptionSets :
    query = [IdleQuery EXCEPT !.pc = "called", !.via = via, !.options = o]

\* lines 1318-1339: the options are validated; the call throws, or goes on
\* to await listVentsWithRoomTemperatures.
QueryValidate ==
  /\ query.pc = "called"
  /\ query' = [query EXCEPT !.pc = IF Rejects(Passed(query.via, query.options))
                                     THEN "rejected" ELSE "fetch"]
  /\ UNCHANGED <<viewVars, sessVars, apiVars, clientVars, writeToolsEnabled, servers, tool, upstream>>

\* listVentsWithRoomTemperatures sends its requests (vents, rooms, room
\* statistics), all GET.
QueryRequest ==
  /\ query.pc = "fetch"
  /\ query' = [query EXCEPT !.pc = "data", !.requests = 1]
  /\ upstream' = upstream \cup {ResourceRequest(m) : m \in MethodsOf("listVentsWithRoomTemperatures")}
  /\ UNCHANGED <<viewVars, sessVars, apiVars, clientVars, writeToolsEnabled, servers, tool>>

\* lines 1351-1375: the vents arrive and are filtered.
QueryFilter ==
  /\ query.pc = "data"
  /\ query' = [query EXCEPT !.pc = "done", !.out = Selected(Passed(query.via, query.options))]
  /\ UNCHANGED <<viewVars, sessVars, apiVars, clientVars, writeToolsEnabled, servers, tool, upstream>>

NextQuery ==
  \/ QueryValidate
  \/ QueryRequest
  \/ QueryFilter

\* ------------------------------------------------------ latest room statistics

Rooms == {1, 2}                    \* room ids
Readings == {1, 2}                 \* values to tell two readings apart
NoRoom == 0                        \* a row without room-id and room relation
NoReading == 0                     \* statsByRoom has no entry for the room
DefaultMaxPages == 10

\* A row of the room-stats collection: its room id, if any, and its reading.
StatRows == [room : Rooms \cup {NoRoom}, val : Readings]

\* The pages upstream may answer with: up to the page size of rows, and a
\* next link or none.
StatPages == [rows : UNION {[1..k -> StatRows] : k \in 0..PageSizeArg}, next : BOOLEAN]

\* line 1404: options?.maxPages ?? 10
MaxPagesOf(maxPages) == IF maxPages.given THEN maxPages.v ELSE DefaultMaxPages

\* lines 1416-1426: a row is skipped when it has no room id, when room ids
\* were asked for and its room is not among them, or when its room already
\* has an entry; else its reading becomes the room's entry.
StatRow(statsByRoom, roomIds, row) ==
  IF \/ row.room = NoRoom
     \/ (roomIds # {} /\ row.room \notin roomIds)
     \/ statsByRoom[row.room] # NoReading
    THEN statsByRoom
    ELSE [statsByRoom EXCEPT ![row.room] = row.val]

\* lines 1415-1427: the rows of a page, in order
RECURSIVE StatRowsOf(_, _, _)
StatRowsOf(statsByRoom, roomIds, rows) ==
  IF rows = <<>> THEN statsByRoom
  ELSE StatRowsOf(StatRow(statsByRoom, roomIds, Head(rows)), roomIds, Tail(rows))

\* statsByRoom.size
StatsSize(statsByRoom) == Cardinality({r \in Rooms : statsByRoom[r] # NoReading})

\* lines 1429-1432 and the loop's test page <= maxPages: whether the scan
\* ends after the page just read
ScanEnds(sc, page) ==
  \/ (sc.roomIds # {} /\ StatsSize(sc.statsByRoom) >= Cardinality(sc.roomIds))
  \/ Len(page.rows) < PageSizeArg
  \/ ~page.next
  \/ sc.page + 1 > MaxPagesOf(sc.maxPages)

IdleScan == [pc |-> "idle", roomIds |-> {}, maxPages |-> Absent, page |-> 0,
             statsByRoom |-> [r \in Rooms |-> NoReading], rows |-> <<>>]

\* line 1406: the loop's first test, then the request of page 1
FirstPage(sc) ==
  IF 1 <= MaxPagesOf(sc.maxPages) THEN [sc EXCEPT !.pc = "page", !.page = 1]
                                  ELSE [sc EXCEPT !.pc = "done"]

\* getLatestRoomStatsByRoom(roomIds, {maxPages}): the path is resolved
\* (line 1401), from the cache or by a request of the root document.
ScanStart ==
  /\ scan.pc = "idle"
  /\ \E ids \in SUBSET Rooms, m \in {Absent} \cup {Some(n) : n \in 1..MaxPagesArg} :
       LET sc == [IdleScan EXCEPT !.roomIds = ids, !.maxPages = m]
       IN scan' = IF CacheHit(apiRootCache) THEN FirstPage(sc) ELSE [sc EXCEPT !.pc = "root"]
  /\ UNCHANGED <<sessVars, apiVars, clientVars, toolVars, health, output, dedupe, backoff, devices>>

\* The root document arrives, is cached, and page 1 is requested.
ScanRoot ==
  /\ scan.pc = "root"
  /\ \E doc \in RootDocs : apiRootCache' = doc
  /\ rootLoads' = rootLoads + 1
  /\ scan' = FirstPage(scan)
  /\ UNCHANGED <<sessVars, apiVars, resolve, list, verify, toolVars, health, output, dedupe, backoff, devices>>

\* lines 1407-1432: a page arrives, its rows are gone through, and the
\* scan ends or requests the next page.
ScanPage ==
  /\ scan.pc = "page"
  /\ \E page \in StatPages :
       LET sc == [scan EXCEPT !.statsByRoom = StatRowsOf(@, scan.roomIds, page.rows),
                              !.rows = page.rows]
       IN scan' = IF ScanEnds(sc, page) THEN [sc EXCEPT !.pc = "done"]
                                        ELSE [sc EXCEPT !.page = @ + 1]
  /\ UNCHANGED <<sessVars, apiVars, clientVars, toolVars, health, output, dedupe, backoff, devices>>

\* A request of the scan throws (requestJsonApi gave up): so does the scan.
ScanFailure ==
  /\ scan.pc \in {"root", "page"}
  /\ scan' = [scan EXCEPT !.pc = "failed"]
  /\ UNCHANGED <<sessVars, apiVars, clientVars, toolVars, health, output, dedupe, backoff, devices>>

NextScan ==
  \/ ScanStart
  \/ ScanRoot
  \/ ScanPage
  \/ ScanFailure

\* ------------------------------------------------------ health endpoint

AccessTokens == {1, 2}             \* values of token.accessToken
TokenLefts == {-2, 1, 3}           \* seconds to expiry of a cached token (expired: below 0)
UpstreamBodies == {"body"}         \* response documents of a failed request

\* The token records of the manager with their secret: none, or a record
\* with its expiry and access token.
TokenRecords == {NoToken} \cup [left : TokenLefts, accessToken : AccessTokens]

\* Mutant: the status carries the access token.
getStatusWithToken(tok) ==
  [hasToken |-> tok # NoToken,
   expiresAt |-> IF tok # NoToken THEN Some(tok.accessToken) ELSE Absent,
   secondsRemaining |-> IF tok # NoToken /\ tok.left > 0 THEN tok.left ELSE 0]

\* flairAuth.ts lines 46-53. expiresAt is kept relative to the time of the
\* call, as the record's expiry is.
getStatus(tok) ==
  [hasToken |-> tok # NoToken,
   expiresAt |-> IF tok # NoToken THEN Some(tok.left) ELSE Absent,
   secondsRemaining |-> IF tok # NoToken /\ tok.left > 0 THEN tok.left ELSE 0]

\* getApiRootCacheStatus, with the number of resource types left out
getApiRootCacheStatus(cache) == [cached |-> cache # 0]

\* buildFlairStatus
buildFlairStatus(tok, cache) ==
  [token |-> getStatus(tok), apiRootCache |-> getApiRootCacheStatus(cache)]

\* err.details === undefined
NoDetails == [given |-> FALSE, v |-> ""]

\* What listResourceTypes may throw. requestJsonApi throws a FlairApiError
\* with the status and the response document (lines 1504-1509) or, for a
\* failure without a response, with neither and retryable (lines 1521-1526);
\* getApiRootLinks throws one with the parse error as details (line 668).
HealthErrors ==
  {[api |-> TRUE, message |-> "status", statusCode |-> Some(st), details |-> d,
    retryable |-> IF st = 429 \/ st >= 500 THEN "true" ELSE "false"] :
      st \in {401, 503}, d \in {NoDetails} \cup {[given |-> TRUE, v |-> b] : b \in UpstreamBodies}}
  \cup {[api |-> TRUE, message |-> "failed", statusCode |-> Absent, details |-> NoDetails,
         retryable |-> "true"]}
  \cup {[api |-> TRUE, message |-> "links", statusCode |-> Absent,
         details |-> [given |-> TRUE, v |-> "flatten"], retryable |-> "false"]}

\* lines 1624-1637; an undefined member is one JSON leaves out
normalizeFlairError(err) ==
  IF err.api
    THEN [message |-> err.message, statusCode |-> err.statusCode,
          details |-> err.details, retryable |-> err.retryable]
    ELSE [message |-> err.message, statusCode |-> Absent,
          details |-> NoDetails, retryable |-> "absent"]

NoDeep == [ok |-> TRUE, error |-> "none"]
NoReport == [ok |-> TRUE, code |-> 0]
IdleHealth == [pc |-> "idle", deep |-> FALSE, calls |-> 0, outcome |-> "none",
               report |-> NoReport]

\* part_001 lines 762-774: the status object and the response code
HealthReport(deep, deepOk, deepResult) ==
  LET ok == IF deep THEN deepOk ELSE TRUE
  IN [ok |-> ok,
      code |-> IF ok THEN 200 ELSE 503,
      writeToolsEnabled |-> writeToolsEnabled,
      sessions |-> Cardinality(DOMAIN sessions),
      flair |-> buildFlairStatus(token', apiRootCache'),
      deep |-> IF deep THEN deepResult ELSE NoDeep]

\* What a request of the deep check does to the token record: a valid
\* record is used as it is; otherwise the token is refreshed, which leaves
\* the record as it was when it fails.
AfterRequest(refreshed) ==
  IF TokenValid THEN {token}
  ELSE IF refreshed THEN [left : ExpiresIns, accessToken : AccessTokens]
  ELSE {token} \cup [left : ExpiresIns, accessToken : AccessTokens]

\* part_001 lines 740-775: GET healthPath. Without deep, and with deep and
\* the root links cached (flairApi.ts line 657), the handler answers with
\* no request made; otherwise the root document is requested.
HealthRequest ==
  /\ health.pc \in {"idle", "done"}
  /\ \E deep \in BOOLEAN :
       IF deep /\ ~CacheHit(apiRootCache)
         THEN /\ health' = [IdleHealth EXCEPT !.pc = "root", !.deep = TRUE, !.calls = 1]
              /\ UNCHANGED <<token, apiRootCache>>
         ELSE /\ UNCHANGED <<token, apiRootCache>>
              /\ health' = [IdleHealth EXCEPT !.pc = "done", !.deep = deep, !.outcome = "ok",
                              !.report = HealthReport(deep, TRUE, [ok |-> TRUE, error |-> "none"])]
  /\ UNCHANGED <<sessVars, retryMax, inflight, pending, waiting, mq, call, resolve, rootLoads,
                 list, verify, toolVars, scan, output, dedupe, backoff, devices>>

\* The root document arrives and is cached; the report is healthy.
HealthRoot ==
  /\ health.pc = "root"
  /\ \E doc \in RootDocs : apiRootCache' = doc
  /\ rootLoads' = rootLoads + 1
  /\ token' \in AfterRequest(TRUE)
  /\ health' = [health EXCEPT !.pc = "done", !.outcome = "ok",
                  !.report = HealthReport(TRUE, TRUE, [ok |-> TRUE, error |-> "none"])]
  /\ UNCHANGED <<sessVars, retryMax, inflight, pending, waiting, mq, call, resolve,
                 list, verify, toolVars, scan, output, dedupe, backoff, devices>>

\* listResourceTypes throws: the catch block builds the failure part, and
\* the handler answers 503.
HealthFailure ==
  /\ health.pc = "root"
  /\ token' \in AfterRequest(FALSE)
  /\ UNCHANGED clientVars
  /\ \E err \in HealthErrors :
       health' = [health EXCEPT !.pc = "done", !.outcome = "failed",
                    !.report = HealthReport(TRUE, FALSE,
                                 [ok |-> FALSE, error |-> normalizeFlairError(err)])]
  /\ UNCHANGED <<sessVars, retryMax, inflight, pending, waiting, mq, call, toolVars, scan, output, dedupe, backoff, devices>>

NextHealth ==
  \/ HealthRequest
  \/ HealthRoot
  \/ HealthFailure
  \/ Tick

\* ------------------------------------------------------ output redaction

\* A key is a sequence of pieces: words of letters, which follow one another
\* without anything between them, and the separators - and _.
Seps == {"-", "_"}
SensitiveWords == {"secret", "token", "password", "passphrase", "authorization"}
NoKey == <<>>

\* The i flag of SENSITIVE_KEY: pieces are compared in lower case.
PieceLower(piece) ==
  CASE piece = "Token" -> "token"
    [] piece = "API" -> "api"
    [] piece = "Key" -> "key"
    [] OTHER -> piece

\* line 618: /(?:^|[-_])(secret|token|password|passphrase|api[-_]?key|authorization)(?:$|[-_])/i
SENSITIVE_KEY(key) ==
  \E i, j \in DOMAIN key :
    /\ \/ i = j /\ PieceLower(key[i]) \in SensitiveWords
       \/ j = i + 1 /\ PieceLower(key[i]) = "api" /\ PieceLower(key[j]) = "key"
       \/ j = i + 2 /\ PieceLower(key[i]) = "api" /\ key[i + 1] \in Seps
                    /\ PieceLower(key[j]) = "key"
    /\ i = 1 \/ key[i - 1] \in Seps
    /\ j = Len(key) \/ key[j + 1] \in Seps

\* access_token, accessToken and API-Key
DocKeys == {<<"access", "_", "token">>, <<"access", "Token">>, <<"API", "-", "Key">>}

\* JSON values: a scalar, an array of items, an object of keyed items.
Marker == "[REDACTED]"
Scalar(str) == [t |-> "scalar", s |-> str, items |-> <<>>]
Entry(key, item) == [key |-> key, item |-> item]
ArrayOf(items) == [t |-> "array", s |-> "", items |-> [i \in DOMAIN items |-> Entry(NoKey, items[i])]]
ObjectOf(entries) == [t |-> "object", s |-> "", items |-> entries]

\* The documents a tool may hand to toJsonOutput, nested up to a depth:
\* arrays and objects of one item, or of a scalar and one item (in an
\* object the scalar is under access_token).
RECURSIVE JsonDocs(_)
JsonDocs(depth) ==
  IF depth = 0 THEN {Scalar("value"), Scalar(Marker)}
  ELSE LET inner == JsonDocs(depth - 1)
       IN inner
          \cup {ArrayOf(<<d>>) : d \in inner}
          \cup {ArrayOf(<<Scalar("value"), d>>) : d \in inner}
          \cup {ObjectOf(<<Entry(k, d)>>) : k \in DocKeys, d \in inner}
          \cup {ObjectOf(<<Entry(<<"access", "_", "token">>, Scalar("value")), Entry(k, d)>>) :
                  k \in DocKeys \ {<<"access", "_", "token">>}, d \in inner}

\* Mutant: arrays are passed on as they are.
RECURSIVE redactObjectsOnly(_)
redactObjectsOnly(value) ==
  IF value.t = "object"
    THEN [value EXCEPT !.items =
            [i \in DOMAIN value.items |->
               IF SENSITIVE_KEY(value.items[i].key)
                 THEN Entry(value.items[i].key, Scalar(Marker))
                 ELSE Entry(value.items[i].key, redactObjectsOnly(value.items[i].item))]]
    ELSE value

\* lines 620-638
RECURSIVE redactSensitive(_)
redactSensitive(value) ==
  CASE value.t = "array" ->
         [value EXCEPT !.items =
            [i \in DOMAIN value.items |->
               Entry(NoKey, redactSensitive(value.items[i].item))]]
    [] value.t = "object" ->
         [value EXCEPT !.items =
            [i \in DOMAIN value.items |->
               IF SENSITIVE_KEY(value.items[i].key)
                 THEN Entry(value.items[i].key, Scalar(Marker))
                 ELSE Entry(value.items[i].key, redactSensitive(value.items[i].item))]]
    [] OTHER -> value

IdleOutput == [pc |-> "idle", data |-> Scalar(""), text |-> Scalar("")]

\* A tool handler has its result and is about to return toJsonOutput(data).
InitOutput ==
  \E d \in JsonDocs(MaxDepth) : output = [IdleOutput EXCEPT !.pc = "data", !.data = d]

\* lines 1639-1641: the text emitted is the JSON of redactSensitive(data)
toJsonOutput ==
  /\ output.pc = "data"
  /\ output' = [output EXCEPT !.pc = "emitted", !.text = redactSensitive(output.data)]
  /\ UNCHANGED <<sessVars, apiVars, clientVars, toolVars, scan, health, dedupe, backoff, devices>>

NextOutput ==
  \/ toJsonOutput

\* ------------------------------------------------------ backoff

RetryBases == {1, 250}             \* config.retryBaseMs (a positive integer, default 250)
JitterSpan == 150
RetryAfterHeaders == {"absent", "0", "1", "30", "date"}   \* the retry-after header

\* Number(header): the seconds of a numeric header; NaN for an HTTP date.
NumberOf(header) ==
  CASE header = "0" -> [nan |-> FALSE, v |-> 0]
    [] header = "1" -> [nan |-> FALSE, v |-> 1]
    [] header = "30" -> [nan |-> FALSE, v |-> 30]
    [] OTHER -> [nan |-> TRUE, v |-> 0]

\* lines 1575-1576: retryAfterHeader ? Number(retryAfterHeader) * 1000 : undefined
RetryAfterMs(header) ==
  IF header = "absent" THEN [given |-> FALSE, nan |-> FALSE, v |-> 0]
  ELSE [given |-> TRUE, nan |-> NumberOf(header).nan, v |-> NumberOf(header).v * 1000]

\* Mutant: the header is ignored.
backoffMsIgnoringRetryAfter(base, attempt, retryAfterMs, jitter) ==
  base * 2 ^ (attempt - 1) + jitter

\* lines 1532-1539, with the value Math.floor(Math.random() * 150) took
backoffMs(base, attempt, retryAfterMs, jitter) ==
  IF retryAfterMs.given /\ ~retryAfterMs.nan /\ retryAfterMs.v # 0 /\ retryAfterMs.v > 0
    THEN retryAfterMs.v
    ELSE base * 2 ^ (attempt - 1) + jitter

IdleBackoff == [pc |-> "idle", base |-> 1, attempt |-> 0, via |-> "status", header |-> "absent",
                wait |-> 0]

\* requestJsonApi is at some attempt of a call, with some retryBaseMs.
InitBackoff ==
  \E base \in RetryBases, attempt \in 0..(MaxBackoffs - 1) :
    backoff = [IdleBackoff EXCEPT !.pc = "try", !.base = base, !.attempt = attempt]

\* lines 1497-1501: a 429 or 5xx response with attempts left: attempt += 1
\* and sleep(backoffMs(attempt, response.retryAfterMs)).
RetryStatus ==
  /\ backoff.pc = "try"
  /\ \E header \in RetryAfterHeaders, jitter \in 0..(JitterSpan - 1) :
       backoff' = [backoff EXCEPT !.pc = "wait", !.attempt = @ + 1, !.via = "status",
                     !.header = header,
                     !.wait = backoffMs(backoff.base, backoff.attempt + 1,
                                        RetryAfterMs(header), jitter)]
  /\ UNCHANGED <<sessVars, apiVars, clientVars, toolVars, scan, health, output, dedupe, devices>>

\* lines 1515-1519: a request that threw, with attempts left: attempt += 1
\* and sleep(backoffMs(attempt)).
RetryError ==
  /\ backoff.pc = "try"
  /\ \E jitter \in 0..(JitterSpan - 1) :
       backoff' = [backoff EXCEPT !.pc = "wait", !.attempt = @ + 1, !.via = "error",
                     !.wait = backoffMs(backoff.base, backoff.attempt + 1,
                                        RetryAfterMs("absent"), jitter)]
  /\ UNCHANGED <<sessVars, apiVars, clientVars, toolVars, scan, health, output, dedupe, devices>>

\* The wait is over and the request is sent again.
RetryAgain ==
  /\ backoff.pc = "wait"
  /\ backoff.attempt < MaxBackoffs
  /\ backoff' = [backoff EXCEPT !.pc = "try", !.via = "status", !.header = "absent", !.wait = 0]
  /\ UNCHANGED <<sessVars, apiVars, clientVars, toolVars, scan, health, output, dedupe, devices>>

NextBackoff ==
  \/ RetryStatus
  \/ RetryError
  \/ RetryAgain

\* ------------------------------------------------------ id dedup pass

DedupeIds == {1, 2, 3}             \* ids of the resources of a list
NoPass == [unique |-> <<>>, duplicates |-> 0]
IdleDedupe == [pc |-> "idle", resources |-> <<>>, first |-> NoPass, second |-> NoPass]

\* A list of resources, each taken for its id, is about to be deduplicated.
InitDedupe ==
  \E resources \in UNION {[1..n -> DedupeIds] : n \in 0..MaxList} :
    dedupe = [IdleDedupe EXCEPT !.pc = "list", !.resources = resources]

\* dedupeResourcesById(resources)
DedupeOnce ==
  /\ dedupe.pc = "list"
  /\ dedupe' = [dedupe EXCEPT !.pc = "once",
                  !.first = dedupeResourcesById(dedupe.resources, <<>>, 0)]
  /\ UNCHANGED <<sessVars, apiVars, clientVars, toolVars, scan, health, output, backoff, devices>>

\* dedupeResourcesById(unique), on the list the first pass returned
DedupeAgain ==
  /\ dedupe.pc = "once"
  /\ dedupe' = [dedupe EXCEPT !.pc = "twice",
                  !.second = dedupeResourcesById(dedupe.first.unique, <<>>, 0)]
  /\ UNCHANGED <<sessVars, apiVars, clientVars, toolVars, scan, health, output, backoff, devices>>

NextDedupe ==
  \/ DedupeOnce
  \/ DedupeAgain

\* ------------------------------------------------------ device listing

NoId == 0                           \* an option that was not given (undefined)

\* A device resource: its id, the ids its room and structure relationships
\* hold, and its active attribute.
Dev(id, room, structure, active) ==
  [id |-> id, room |-> room, structure |-> structure, active |-> active]

\* The device resources upstream may hold; a collection may hold one twice.
UpstreamDevices == {Dev(1, 1, 1, TRUE), Dev(2, 2, 1, TRUE), Dev(3, 1, 2, FALSE)}

\* lines 31-38, for a relationship holding one id
relationContainsId(item, relationshipName, id) ==
  IF relationshipName = "room" THEN item.room = id ELSE item.structure = id

\* Array.prototype.filter
Filter(items, Test(_)) == SelectSeq(items, Test)

IdleDevices ==
  [pc |-> "idle", structureId |-> NoId, roomId |-> NoId, activeOnly |-> FALSE,
   pageSize |-> 1, maxItems |-> 0, collection |-> <<>>,
   data |-> <<>>, pagesFetched |-> 0, visitedNext |-> {}, nextLink |-> 0, asked |-> <<>>,
   devices |-> <<>>, count |-> 0, duplicatesRemoved |-> 0]

\* Upstream serves its collection in pages of pageSize resources; a page
\* has a next link (the number of the next page) while resources remain.
PageOf(d, k) ==
  SubSeq(d.collection, (k - 1) * d.pageSize + 1,
         IF k * d.pageSize < Len(d.collection) THEN k * d.pageSize ELSE Len(d.collection))
NextOf(d, k) == IF k * d.pageSize < Len(d.collection) THEN k + 1 ELSE 0

\* lines 931-943: the structure, room and active filters, in this order
Filtered(d) ==
  LET byStructure == IF d.structureId # NoId
                       THEN Filter(d.data, LAMBDA item : relationContainsId(item, "structure", d.structureId))
                       ELSE d.data
      byRoom == IF d.roomId # NoId
                  THEN Filter(byStructure, LAMBDA item : relationContainsId(item, "room", d.roomId))
                  ELSE byStructure
  IN IF d.activeOnly THEN Filter(byRoom, LAMBDA item : item.active) ELSE byRoom

\* lines 931-973: what listDevices makes of the result of listResources:
\* the filters, dedupeResourcesById, and the devices (here their ids) with
\* the summary.
DevicesOf(d) ==
  LET filtered == Filtered(d)
      deduped == dedupeResourcesById([i \in DOMAIN filtered |-> filtered[i].id], <<>>, 0)
  IN [d EXCEPT !.pc = "returned",
               !.devices = deduped.unique,
               !.count = Len(deduped.unique),
               !.duplicatesRemoved = deduped.duplicates]

\* listResources has returned (lines 728-737) and listDevices goes on.
Listed(d) == IF d.pc = "done" THEN DevicesOf(d) ELSE d

\* The list_devices tool (part_001 lines 192-199) calls listDevices, which
\* calls listResources("devices", {pageSize, maxItems}) (lines 926-929): the
\* path is resolved (line 698), from the cache or by a request of the root
\* document.
DevicesStart ==
  /\ devices.pc = "idle"
  /\ \E s \in {NoId, 1}, r \in {NoId, 1}, a \in BOOLEAN,
        ps \in 1..PageSizeArg, n \in 1..MaxItemsArg,
        coll \in UpTo(UpstreamDevices, MaxData) :
       devices' = [IdleDevices EXCEPT !.structureId = s, !.roomId = r, !.activeOnly = a,
                     !.pageSize = ps, !.maxItems = n, !.collection = coll,
                     !.pc = IF CacheHit(apiRootCache) THEN "first" ELSE "root"]
  /\ UNCHANGED <<sessVars, apiVars, clientVars, toolVars, scan, health, output, dedupe, backoff>>

\* The root document arrives, is cached, and the first page is requested.
DevicesRoot ==
  /\ devices.pc = "root"
  /\ \E doc \in RootDocs : apiRootCache' = doc
  /\ rootLoads' = rootLoads + 1
  /\ devices' = [devices EXCEPT !.pc = "first"]
  /\ UNCHANGED <<sessVars, apiVars, resolve, list, verify, toolVars, scan, health, output, dedupe, backoff>>

\* lines 701-707: the first page; then the loop's tests, and if the loop
\* is left at once, the rest of listResources and of listDevices.
DevicesFirstPage ==
  /\ devices.pc = "first"
  /\ devices' = Listed(Continue([devices EXCEPT !.data = PageOf(devices, 1),
                                                !.pagesFetched = 1,
                                                !.nextLink = NextOf(devices, 1)]))
  /\ UNCHANGED <<sessVars, apiVars, clientVars, toolVars, scan, health, output, dedupe, backoff>>

\* lines 713-725: a later page is added; then the ceiling test and the
\* loop's tests, and if the loop is left, the rest of listResources and of
\* listDevices.
DevicesNextPage ==
  /\ devices.pc = "page"
  /\ LET d == [devices EXCEPT !.data = @ \o PageOf(devices, devices.nextLink),
                              !.pagesFetched = @ + 1]
     IN devices' = Listed(IF CeilingReached(d.pagesFetched)
                            THEN Finish(d)
                            ELSE Continue([d EXCEPT !.nextLink = NextOf(devices, devices.nextLink)]))
  /\ UNCHANGED <<sessVars, apiVars, clientVars, toolVars, scan, health, output, dedupe, backoff>>

\* A request of the call throws (requestJsonApi gave up): so does the call.
DevicesFailure ==
  /\ devices.pc \in {"root", "first", "page"}
  /\ devices' = [devices EXCEPT !.pc = "failed"]
  /\ UNCHANGED <<sessVars, apiVars, clientVars, toolVars, scan, health, output, dedupe, backoff>>

NextDevices ==
  \/ DevicesStart
  \/ DevicesRoot
  \/ DevicesFirstPage
  \/ DevicesNextPage
  \/ DevicesFailure

InitViews ==
  /\ backoff = IdleBackoff
  /\ devices = IdleDevices
  /\ scan = IdleScan
  /\ health = IdleHealth
  /\ output = IdleOutput
  /\ dedupe = IdleDedupe

InitTools ==
  /\ servers = <<>>
  /\ tool = IdleTool
  /\ upstream = {}

NoQuery == query = IdleQuery

\* boolFromEnv(env.WRITE_TOOLS_ENABLED, false): unset gives the default.
InitApi ==
  /\ InitSess
  /\ InitClient
  /\ InitTools
  /\ InitViews
  /\ NoQuery
  /\ writeToolsEnabled = FALSE
  /\ retryMax \in 0..MaxRetry
  /\ token = NoToken
  /\ inflight = 0
  /\ pending = {}
  /\ waiting = <<>>
  /\ mq = <<>>
  /\ call = [c \in Callers |-> IdleCall]

NextApi ==
  \/ \E c \in Callers : Call(c)
  \/ \E p \in Refreshes : TokenResponse(p)
  \/ RunJob
  \/ \E c \in Callers : ResourceResponse(c)
  \/ \E c \in Callers : ResourceFailure(c)
  \/ \E c \in Callers : WakeUp(c)
  \/ \E c \in Callers : Return(c)
  \/ Tick

SpecApi == InitApi /\ [][NextApi]_vars

InitAll ==
  /\ InitSess
  /\ InitClient
  /\ InitTools
  /\ InitViews
  /\ NoQuery
  /\ writeToolsEnabled = FALSE
  /\ retryMax = 0
  /\ token = NoToken
  /\ inflight = 0
  /\ pending = {}
  /\ waiting = <<>>
  /\ mq = <<>>
  /\ call = [c \in Callers |-> IdleCall]

SpecSess == InitAll /\ [][NextSess]_vars

SpecRoot == InitAll /\ [][NextRoot]_vars

SpecList == InitAll /\ [][NextList]_vars

SpecVerify == InitAll /\ [][NextVerify]_vars

\* Values of the environment variable WRITE_TOOLS_ENABLED; "" and blanks are
\* turned into undefined by emptyToUndefined before boolFromEnv sees them.
EnvValues == {"undefined", "", " ", "1", "true", "TRUE", "Yes", "y", "0", "false", "no", "on"}

emptyToUndefined(value) == IF value \in {"", " "} THEN "undefined" ELSE value

toLowerCase(value) ==
  CASE value = "TRUE" -> "true"
    [] value = "Yes" -> "yes"
    [] OTHER -> value

\* part_000 lines 11-14
boolFromEnv(value, defaultValue) ==
  IF value = "undefined" THEN defaultValue
  ELSE toLowerCase(value) \in {"1", "true", "yes", "y"}

\* WRITE_TOOLS_ENABLED is read once, when the process starts.
InitConfigured ==
  /\ InitSess
  /\ InitClient
  /\ InitTools
  /\ InitViews
  /\ NoQuery
  /\ \E value \in EnvValues : writeToolsEnabled = boolFromEnv(emptyToUndefined(value), FALSE)
  /\ retryMax = 0
  /\ token = NoToken
  /\ inflight = 0
  /\ pending = {}
  /\ waiting = <<>>
  /\ mq = <<>>
  /\ call = [c \in Callers |-> IdleCall]

SpecTools == InitConfigured /\ [][NextTools]_vars

InitCalled ==
  /\ InitSess
  /\ InitClient
  /\ InitTools
  /\ InitViews
  /\ InitQuery
  /\ writeToolsEnabled = FALSE
  /\ retryMax = 0
  /\ token = NoToken
  /\ inflight = 0
  /\ pending = {}
  /\ waiting = <<>>
  /\ mq = <<>>
  /\ call = [c \in Callers |-> IdleCall]

SpecQuery == InitCalled /\ [][NextQuery]_vars

SpecScan == InitAll /\ [][NextScan]_vars

SpecDevices == InitAll /\ [][NextDevices]_vars

\* The server at some moment of its run: some token record cached or none,
\* the root links not yet cached, and no health request under way.
InitServing ==
  /\ InitSess
  /\ InitClient
  /\ InitTools
  /\ InitViews
  /\ NoQuery
  /\ writeToolsEnabled \in BOOLEAN
  /\ retryMax = 0
  /\ token \in TokenRecords
  /\ inflight = 0
  /\ pending = {}
  /\ waiting = <<>>
  /\ mq = <<>>
  /\ call = [c \in Callers |-> IdleCall]

SpecHealth == InitServing /\ [][NextHealth]_vars

InitEmitting ==
  /\ InitSess
  /\ InitClient
  /\ InitTools
  /\ scan = IdleScan
  /\ backoff = IdleBackoff
  /\ devices = IdleDevices
  /\ health = IdleHealth
  /\ InitOutput
  /\ dedupe = IdleDedupe
  /\ NoQuery
  /\ writeToolsEnabled = FALSE
  /\ retryMax = 0
  /\ token = NoToken
  /\ inflight = 0
  /\ pending = {}
  /\ waiting = <<>>
  /\ mq = <<>>
  /\ call = [c \in Callers |-> IdleCall]

SpecOutput == InitEmitting /\ [][NextOutput]_vars

InitDeduping ==
  /\ InitSess
  /\ InitClient
  /\ InitTools
  /\ scan = IdleScan
  /\ health = IdleHealth
  /\ backoff = IdleBackoff
  /\ devices = IdleDevices
  /\ output = IdleOutput
  /\ InitDedupe
  /\ NoQuery
  /\ writeToolsEnabled = FALSE
  /\ retryMax = 0
  /\ token = NoToken
  /\ inflight = 0
  /\ pending = {}
  /\ waiting = <<>>
  /\ mq = <<>>
  /\ call = [c \in Callers |-> IdleCall]

SpecDedupe == InitDeduping /\ [][NextDedupe]_vars

InitRetrying ==
  /\ InitSess
  /\ InitClient
  /\ InitTools
  /\ scan = IdleScan
  /\ health = IdleHealth
  /\ output = IdleOutput
  /\ devices = IdleDevices
  /\ dedupe = IdleDedupe
  /\ InitBackoff
  /\ NoQuery
  /\ writeToolsEnabled = FALSE
  /\ retryMax = 0
  /\ token = NoToken
  /\ inflight = 0
  /\ pending = {}
  /\ waiting = <<>>
  /\ mq = <<>>
  /\ call = [c \in Callers |-> IdleCall]

SpecBackoff == InitRetrying /\ [][NextBackoff]_vars

\* ------------------------------------------------- claims: executor

Fatal4xx == {Got(s) : s \in {t \in Statuses : t >= 400 /\ t <= 499 /\ t # 429}}
RetryableOutcomes == {NetErr} \cup {Got(s) : s \in {t \in Statuses : t = 429 \/ t >= 500}}
WaitersOf(p) == {waiting[i].c : i \in {k \in DOMAIN waiting : waiting[k].p = p}}

\* C1: callers that invoke getAccessToken while no valid token is cached all
\* wait on one refresh, for which exactly one upstream token request is
\* outstanding, and the continuations queued when it settles all carry the
\* same token or the same failure.
C1_SingleFlight ==
  /\ Cardinality(pending) <= 1
  /\ \A i \in DOMAIN waiting : waiting[i].p \in pending /\ waiting[i].p = inflight
  /\ \A c \in Callers : call[c].pc = "tokenWait" =>
        \/ \E i \in DOMAIN waiting : waiting[i].c = c
        \/ \E i \in DOMAIN mq : mq[i].c = c
  /\ \A i, j \in DOMAIN mq :
        mq[i].p = mq[j].p => mq[i].ok = mq[j].ok /\ mq[i].tok = mq[j].tok

\* Two callers waited on one refresh, whose single request has been answered.
C1_Witness ==
  /\ Len(mq) >= 2
  /\ mq[1].c # mq[2].c
  /\ pending = {}

\* C2: a network failure or timeout, a 429 and a 5xx are retried while budget
\* remains (the call sleeps and is re-issued, it does not end); a 2xx ends the
\* call with the document whatever failed before; with the budget used up the
\* call ends in ApiError{retryable: true} with the last status, or none for a
\* network failure.
C2_RetryClassification ==
  \A c \in Callers :
    LET cl == call[c] IN
    /\ cl.last \in RetryableOutcomes /\ cl.pc = "done" =>
          /\ cl.attempt = retryMax
          /\ cl.res = ApiError(cl.last.s, TRUE)
    /\ cl.last \in RetryableOutcomes /\ cl.pc # "done" =>
          cl.pc = "sleep" /\ cl.attempt >= 1 /\ cl.attempt <= retryMax
    /\ cl.last.k = "status" /\ IsOk(cl.last.s) =>
          /\ cl.pc = "done"
          /\ cl.res = [kind |-> "doc", status |-> cl.last.s, retryable |-> FALSE]

\* A call got its document on a retry, after an earlier attempt had failed.
C2_Witness ==
  \E c \in Callers :
    /\ call[c].pc = "done"
    /\ call[c].res.kind = "doc"
    /\ call[c].attempt >= 1
    /\ call[c].nReq >= 2

\* C3: a 4xx other than 429 ends the call at once with ApiError{retryable:
\* false} carrying the status: the request that drew it is the call's last (the
\* only one when it is the first answer), no attempt is counted, and the
\* token manager is left as it was.
C3_FatalStep ==
  \A c \in Callers :
    call[c].pc = "fetch" /\ call'[c].last \in Fatal4xx =>
      /\ call'[c].pc = "done"
      /\ call'[c].res = ApiError(call'[c].last.s, FALSE)
      /\ call'[c].nReq = call[c].nReq
      /\ call'[c].attempt = call[c].attempt
      /\ call[c].attempt = 0 => call[c].nReq = 1
      /\ token' = token /\ inflight' = inflight /\ pending' = pending

C3_FatalClientError ==
  /\ [](\A c \in Callers : call[c].last \in Fatal4xx =>
          call[c].pc = "done" /\ call[c].res = ApiError(call[c].last.s, FALSE))
  /\ [][C3_FatalStep]_vars

\* A 401 ended a call on its first request while a token stays cached.
C3_Witness ==
  \E c \in Callers :
    /\ call[c].last = Got(401)
    /\ call[c].pc = "done"
    /\ call[c].nReq = 1
    /\ token # NoToken

\* Where a call stands: every step of a call raises this, up to 3R + 3.
Progress(cl) ==
  CASE cl.pc = "idle" -> 0
    [] cl.pc = "sleep" -> 3 * cl.attempt
    [] cl.pc = "tokenWait" -> 3 * cl.attempt + 1
    [] cl.pc = "fetch" -> 3 * cl.attempt + 2
    [] cl.pc = "done" -> 3 * retryMax + 3

C4_State ==
  \A c \in Callers :
    /\ call[c].nReq <= retryMax + 1
    /\ call[c].nReq <= call[c].attempt + 1
    /\ call[c].attempt <= retryMax
    /\ call[c].pc = "done" => call[c].res.kind \in {"doc", "ApiError"}
    /\ call[c].pc = "tokenWait" =>
          \/ \E i \in DOMAIN waiting : waiting[i].c = c /\ waiting[i].p \in pending
          \/ \E i \in DOMAIN mq : mq[i].c = c

C4_Step ==
  \A c \in Callers :
    call[c].pc \notin {"idle", "done"} /\ call'[c] # call[c] =>
      Progress(call'[c]) > Progress(call[c])

\* C4: a call with budget R issues at most R + 1 resource requests, never
\* more than one per counted attempt whatever made the attempts fail, and it
\* terminates: each of its steps raises a measure bounded by 3R + 3, a call
\* under way always has a step to take, and it ends with a document or an
\* ApiError.
C4_BoundedRequests == []C4_State /\ [][C4_Step]_vars

\* A call used its whole budget: R + 1 requests, then an ApiError.
C4_Witness ==
  \E c \in Callers :
    /\ retryMax >= 1
    /\ call[c].pc = "done"
    /\ call[c].nReq = retryMax + 1
    /\ call[c].res.kind = "ApiError"

\* C5 (as claimed): a call whose getAccessToken failed is over: it neither
\* sleeps nor asks for a token or a resource again.
C5_RefreshFailureIsFatal ==
  \A c \in Callers : call[c].last = TokFail => call[c].pc = "done"

\* ------------------------------------------ claims: session manager

\* The handler h was started by this step (a request arrived and was not
\* answered 400), or ended by it.
Arrived(h) == CopiesIn(h, req') > CopiesIn(h, req)
Left(h) == CopiesIn(h, req') < CopiesIn(h, req)

\* A request taken up although it bore no id of a session in the table.
Fresh(h) == h.sid = 0 /\ h.init

C6_Step ==
  /\ \A h \in BagToSet(req') : Arrived(h) =>
        IF h.sid \in DOMAIN sessions
          THEN /\ h.t = sessions[h.sid].t
               /\ transports' = transports
               /\ DOMAIN sessions' = DOMAIN sessions
          ELSE /\ Fresh(h)
               /\ h.t = Len(transports) + 1
               /\ Len(transports') = Len(transports) + 1
               /\ sessions' = sessions
  /\ Len(transports') # Len(transports) =>
        \E h \in BagToSet(req') : Arrived(h) /\ Fresh(h)
  /\ \A id \in DOMAIN sessions' \ DOMAIN sessions :
        /\ id > issued
        /\ \E h \in BagToSet(req) : Left(h) /\ Fresh(h) /\ sessions'[id].t = h.t

\* C6: a request is taken up (given a transport, old or new) only when it
\* bears the id of a session in the table at that moment, or bears no id and
\* is an initialize request; only the latter creates a transport or a table
\* entry, under an id never issued before; so every other request changes
\* nothing, and the id of a session that was closed or swept never comes back.
C6_SessionGate ==
  /\ [](\A id \in DOMAIN sessions : id >= 1 /\ id <= issued)
  /\ [][C6_Step]_vars

\* A session has been closed, and an initialize request without id is under way.
C6_Witness ==
  /\ \E id \in 1..issued : id \notin DOMAIN sessions
  /\ \E h \in BagToSet(req) : Fresh(h)

\* C7: every id in the table belongs to a transport that accepted its
\* initialize request and took that id; a transport that is connected but has
\* not accepted one, or refused it, is in no table entry.
C7_OnlyInitialized ==
  /\ \A id \in DOMAIN sessions :
        /\ sessions[id].t \in DOMAIN transports
        /\ transports[sessions[id].t].st = "initialized"
        /\ transports[sessions[id].t].sid = id
  /\ \A t \in DOMAIN transports :
        transports[t].st \in {"connected", "failed"} =>
          \A id \in DOMAIN sessions : sessions[id].t # t

\* A transport awaits its handshake while another request is under way on a
\* session of the table.
C7_Witness ==
  /\ \E t \in DOMAIN transports : transports[t].st = "connected"
  /\ \E h \in BagToSet(req) : h.sid \in DOMAIN sessions

C8_Step ==
  sweep' # sweep =>
    \A id \in DOMAIN sessions :
      sessions[id].lastSeenAt >= sweep'.cutoff =>
        /\ id \in DOMAIN sessions'
        /\ sessions'[id] = sessions[id]
        /\ transports'[sessions[id].t] = transports[sessions[id].t]

\* C8: once a sweep is over, no entry last seen before its cutoff is in the
\* table; and no step of a sweep removes or alters an entry last seen at or
\* after the cutoff, or touches its transport.
C8_Sweep ==
  /\ [](sweep.pc = "done" =>
          \A id \in DOMAIN sessions : sessions[id].lastSeenAt >= sweep.cutoff)
  /\ [][C8_Step]_vars

\* A sweep is over that closed a stale session and left one used in the window.
C8_Witness ==
  /\ sweep.pc = "done"
  /\ sweep.closedN >= 1
  /\ \E id \in DOMAIN sessions : sessions[id].createdAt < sweep.cutoff

\* C9 (as claimed): a request is dispatched to a session of the table only if
\* the session was last seen within the TTL.
C9_ExpiredIsRejected ==
  [][\A h \in BagToSet(req') :
        Arrived(h) /\ h.sid \in DOMAIN sessions =>
          ~(sessions[h.sid].lastSeenAt < now - sessionTtlMs)]_vars

C10_Step ==
  /\ \A id \in DOMAIN sessions \cap DOMAIN sessions' :
        /\ sessions'[id].lastSeenAt >= sessions[id].lastSeenAt
        /\ sessions'[id].createdAt = sessions[id].createdAt
  /\ \A h \in BagToSet(req') :
        Arrived(h) /\ h.sid \in DOMAIN sessions =>
          /\ h.sid \in DOMAIN sessions'
          /\ sessions'[h.sid].lastSeenAt = now

\* C10: a request dispatched to a session of the table leaves the entry's
\* lastSeenAt at the time of the dispatch; lastSeenAt never decreases and is
\* never earlier than createdAt.
C10_LastSeen ==
  /\ [](\A id \in DOMAIN sessions :
          /\ sessions[id].createdAt <= sessions[id].lastSeenAt
          /\ sessions[id].lastSeenAt <= now)
  /\ [][C10_Step]_vars

\* A session was used again after the time it was created at.
C10_Witness ==
  \E id \in DOMAIN sessions : sessions[id].lastSeenAt > sessions[id].createdAt

C11_Step ==
  sweep.pc = "closing" /\ sweep' # sweep =>
    /\ sweep.pos \notin DOMAIN sessions'
    /\ sweep'.cutoff = sweep.cutoff
    /\ sweep'.pc = "closing" =>
          /\ sweep'.pos \in DOMAIN sessions
          /\ sweep'.pos \notin DOMAIN sessions'
          /\ transports'[sessions[sweep'.pos].t].st = "closed"
    /\ sweep'.pc = "done" =>
          \A id \in DOMAIN sessions' : sessions'[id].lastSeenAt >= sweep.cutoff

\* C11: whether or not the release of a stale session threw, the session is
\* out of the table and the sweep goes on: its next step closes the next
\* stale entry, and it ends only when no entry older than the cutoff is left.
C11_SweepSurvivesFailure ==
  /\ [](sweep.pc = "closing" => sweep.pos \notin DOMAIN sessions)
  /\ [][C11_Step]_vars

\* A release threw, and the sweep closed another stale session after it.
C11_Witness ==
  /\ sweep.failedAt >= 1
  /\ sweep.closedN > sweep.failedAt
  /\ sweep.pc = "done"

C12_Step ==
  /\ \A id \in DOMAIN sessions \ DOMAIN sessions' :
        /\ transports'[sessions[id].t].closes = transports[sessions[id].t].closes + 1
        /\ \A other \in DOMAIN sessions \ {id} : other \in DOMAIN sessions'
  /\ \A t \in DOMAIN transports :
        transports'[t].closes # transports[t].closes =>
          /\ transports[t].st = "initialized"
          /\ transports[t].sid \in DOMAIN sessions
          /\ sessions[transports[t].sid].t = t
          /\ transports[t].sid \notin DOMAIN sessions'
  /\ issued' # issued =>
        /\ issued' = issued + 1
        /\ DOMAIN sessions' = DOMAIN sessions \cup {issued'}

C13_RootFetchedOnce ==
  /\ rootLoads + Cardinality({c \in Callers : resolve[c].pc = "root"}) <= 1
  /\ \A c, d \in Callers :
        /\ resolve[c].pc = "done" /\ resolve[d].pc = "done"
        /\ resolve[c].type = "listed" /\ resolve[d].type = "listed"
        => resolve[c].path = resolve[d].path

\* ------------------------------------------------------ paginated fetch

\* C14 (as stated): a fetch with maxItems = N returns at most N items, and
\* exactly N whenever the upstream collection holds at least N.
C14_ExactlyMaxItems ==
  (list.pc = "done" /\ list.maxItems > 0) =>
    /\ Len(list.data) <= list.maxItems
    /\ list.avail >= list.maxItems => Len(list.data) = list.maxItems

\* C14 (amended): a fetch with maxItems = N > 0 returns at most N items; it
\* returns fewer than N only when the last page fetched had no next link,
\* had a next link already followed, or was the twentieth page.
C14_AtMostMaxItems ==
  (list.pc = "done" /\ list.maxItems > 0) =>
    /\ Len(list.data) <= list.maxItems
    /\ Len(list.data) < list.maxItems =>
         \/ list.lastNext = 0 /\ Len(list.data) = list.avail
         \/ list.lastNext \in list.visitedNext
         \/ list.pagesFetched = 20

\* Two pages delivered three resources and the result was cut to two.
C14_Witness ==
  /\ list.pc = "done" /\ list.maxItems = 2 /\ list.avail = 3
  /\ list.pagesFetched = 2 /\ list.lastNext = 0 /\ Len(list.data) = 2

\* Page requests issued by the call so far: the first page and one for each
\* next link followed.
C15_Requests == IF list.pc \in {"idle", "root"} THEN 0 ELSE 1 + Len(list.asked)

\* C15: one listResources call issues at most 20 page requests, the first
\* included, and a next link is requested only if the page before carried
\* it and fewer than maxItems items were gathered.
C15_PageCeiling ==
  /\ C15_Requests <= 20
  /\ list.pagesFetched <= C15_Requests
  /\ list.pc = "page" =>
       /\ list.nextLink # 0
       /\ list.nextLink = list.lastNext
       /\ list.maxItems = 0 \/ Len(list.data) < list.maxItems
  /\ (list.pc = "done" /\ list.pagesFetched < 20 /\ list.lastNext \notin list.visitedNext) =>
       \/ list.lastNext = 0
       \/ list.maxItems # 0 /\ Len(list.data) >= list.maxItems

\* Twenty pages were fetched and the twentieth offered a link never seen.
C15_Witness ==
  /\ list.pc = "done" /\ list.pagesFetched = 20
  /\ list.lastNext # 0 /\ list.lastNext \notin list.visitedNext

\* C16: within one listResources call no next link is requested twice,
\* every link requested is in the visited set, and a page whose next link
\* was already followed ends the fetch with what was gathered.
C16_NoLinkTwice ==
  /\ \A i, j \in DOMAIN list.asked : list.asked[i] = list.asked[j] => i = j
  /\ list.visitedNext = {list.asked[i] : i \in DOMAIN list.asked}
  /\ (list.pc = "page" /\ list.pagesFetched >= 1) => list.lastNext = list.asked[Len(list.asked)]
  /\ list.pc \in {"first", "page"} => list.lastNext \notin list.visitedNext \ {list.nextLink}

\* A later page repeated a link already followed and the fetch returned
\* the resources of the pages before it.
C16_Witness ==
  /\ list.pc = "done" /\ list.pagesFetched = 3 /\ list.pagesFetched = Len(list.asked) + 1
  /\ list.lastNext \in list.visitedNext /\ Len(list.data) = 3 /\ list.maxItems = 0

\* C17: the data returned by listResources holds no two resources with the
\* same id (it is what a dedup pass over the gathered pages leaves).
C17_NoRepeatedId ==
  list.pc = "done" =>
    /\ \A i, j \in DOMAIN list.data : list.data[i] = list.data[j] => i = j
    /\ list.data = dedupeResourcesById(list.data, <<>>, 0).unique

\* The included list has an entry for every key seen on a fetched page and
\* for no other, and the last entry of a key is the resource of the latest
\* page that held the key.
C18_LatestWins ==
  /\ {list.included[i].key : i \in DOMAIN list.included} = DOMAIN list.latest
  /\ \A i \in DOMAIN list.included :
       (\A j \in DOMAIN list.included : list.included[j].key = list.included[i].key => j <= i)
         => list.included[i].ver = list.latest[list.included[i].key]

C18_OnePerKey ==
  \A i, j \in DOMAIN list.included : list.included[i].key = list.included[j].key => i = j

\* C18 (as stated): the included list returned by listResources holds one
\* entry per key seen on any fetched page, the resource from the latest
\* page containing the key.
C18_IncludedMerged ==
  list.pc = "done" => C18_LatestWins /\ C18_OnePerKey

\* C18 (amended): the included list returned holds an entry for every key
\* seen on a fetched page, the resource from the latest page containing
\* the key; there is one entry per key once a second page was merged in,
\* while the included list of a single page is returned as it came.
C18_IncludedMergedAcrossPages ==
  list.pc = "done" =>
    /\ C18_LatestWins
    /\ list.pagesFetched >= 2 => C18_OnePerKey

\* The second page replaced the first page's resource of a key in place.
C18_Witness ==
  /\ list.pc = "done" /\ list.pagesFetched = 2
  /\ list.included = <<Inc("a", 2), Inc("b", 1)>>

\* ------------------------------------------------------ set and verify

\* C19: set-and-verify sends the write once and before the first poll,
\* polls at most attempts times, and succeeds at the first poll that reads
\* the commanded value: ok with attemptsUsed that poll's index, and no poll
\* after it.
C19_WriteOncePollUntilMatch ==
  /\ verify.writes <= 1
  /\ verify.polls >= 1 => verify.writes = 1 /\ verify.commandResponse
  /\ verify.polls <= verify.attempts
  /\ verify.polls = Len(verify.obs) + (IF verify.pc = "poll" THEN 1 ELSE 0)
  /\ \A i \in DOMAIN verify.obs :
       verify.obs[i] = [k |-> "num", v |-> verify.percentOpen] =>
         /\ i = Len(verify.obs)
         /\ verify.pc = "done"
         /\ verify.result.ok
         /\ verify.result.attemptsUsed = i
         /\ verify.result.actualPercentOpen = verify.obs[i]
  /\ (verify.pc = "done" /\ verify.result.ok) =>
       /\ verify.obs # <<>>
       /\ verify.obs[Len(verify.obs)] = [k |-> "num", v |-> verify.percentOpen]

\* 30 was commanded with four attempts, the polls read 10, 10 and 30: ok
\* with three attempts used.
C19_Witness ==
  /\ verify.pc = "done" /\ verify.percentOpen = 30 /\ verify.attempts = 4
  /\ verify.obs = <<Num(10), Num(10), Num(30)>>
  /\ verify.result.ok /\ verify.result.attemptsUsed = 3 /\ verify.polls = 3

\* The last number read by a poll, null if none was read.
RECURSIVE C20_LastObserved(_)
C20_LastObserved(obs) ==
  IF obs = <<>> THEN Null
  ELSE IF obs[Len(obs)].k = "num" THEN obs[Len(obs)]
  ELSE C20_LastObserved(SubSeq(obs, 1, Len(obs) - 1))

\* The message of the last poll that threw, none if none threw.
RECURSIVE C20_LastThrown(_)
C20_LastThrown(obs) ==
  IF obs = <<>> THEN 0
  ELSE IF obs[Len(obs)].k = "err" THEN obs[Len(obs)].v
  ELSE C20_LastThrown(SubSeq(obs, 1, Len(obs) - 1))

\* C20: when no poll of the budget reads the commanded value, set-and-verify
\* returns ok = false with attemptsUsed = attempts, the last value any poll
\* read (null only if none read one), the last poll error and the write's
\* response; a poll that throws never ends the operation.
C20_ExhaustedResult ==
  /\ (verify.pc = "done" /\ ~verify.result.ok) =>
       /\ verify.result.attemptsUsed = verify.attempts
       /\ Len(verify.obs) = verify.attempts
       /\ verify.result.commandResponse
       /\ C20_LastThrown(verify.obs) # 0 => verify.result.error = C20_LastThrown(verify.obs)
       /\ verify.result.actualPercentOpen = C20_LastObserved(verify.obs)
  /\ verify.pc = "failed" => verify.polls = 0

\* ------------------------------------------------------ token manager

\* A step in which caller c's doRequest calls getAccessToken.
C21_Asks(c) ==
  /\ call[c].pc \in {"idle", "sleep"}
  /\ call'[c].pc # call[c].pc

C21_Step ==
  \A c \in Callers : C21_Asks(c) =>
    IF token # NoToken /\ SkewSec < token.left
      THEN /\ call'[c].pc = "fetch"
           /\ pending' = pending /\ inflight' = inflight /\ waiting' = waiting
      ELSE /\ call'[c].pc = "tokenWait"
           /\ inflight' # 0
           /\ waiting' = Append(waiting, [c |-> c, p |-> inflight'])
           /\ \/ inflight # 0 /\ inflight' = inflight /\ pending' = pending
              \/ inflight = 0 /\ inflight' \notin pending /\ pending' = pending \cup {inflight'}

\* C21: getAccessToken returns the cached token, with no token request,
\* exactly when a token is cached and now plus the skew is before its
\* expiry; otherwise it starts a refresh or joins the one in flight.
C21_CachedOrRefresh == [][C21_Step]_vars

\* A token one second from the skew margin is cached, no refresh is under
\* way, and both callers have their resource request out.
C21_Witness ==
  /\ token # NoToken /\ token.left = SkewSec + 1
  /\ inflight = 0 /\ pending = {} /\ waiting = <<>> /\ mq = <<>>
  /\ \A c \in Callers : call[c].pc = "fetch" /\ call[c].attempt = 0

\* The upstream token request of refresh p fails in this step.
C22_Fails(p) ==
  /\ p \in pending /\ p \notin pending'
  /\ mq' # <<>> /\ ~mq'[1].ok

C22_Step ==
  /\ \A p \in Refreshes : C22_Fails(p) =>
       /\ token' = token
       /\ {mq'[i].c : i \in DOMAIN mq'} = {waiting[i].c : i \in {j \in DOMAIN waiting : waiting[j].p = p}}
       /\ \A i \in DOMAIN mq' : ~mq'[i].ok
       /\ \A i \in DOMAIN waiting' : waiting'[i].p # p
  /\ (mq # <<>> /\ ~Head(mq).ok /\ mq' # mq) =>
       /\ inflight' = 0
       /\ call'[Head(mq).c].pc \in {"sleep", "done"}
       /\ call'[Head(mq).c].last.k = "tokfail"
  /\ (mq = <<>> /\ inflight = 0 /\ ~(token # NoToken /\ SkewSec < token.left)) =>
       \A c \in Callers : C21_Asks(c) => Cardinality(pending') = Cardinality(pending) + 1

\* C22: a failed token refresh leaves the cached record as it was, fails
\* every caller waiting on it and leaves no refresh registered as in
\* flight, so the next getAccessToken call issues a new token request.
C22_FailedRefresh ==
  /\ [](mq = <<>> /\ inflight # 0 => inflight \in pending)
  /\ [][C22_Step]_vars

\* A refresh failed with an expired record cached: the record is still
\* there, nothing is in flight, and a caller was failed and waits to retry.
C22_Witness ==
  /\ token # NoToken /\ token.left <= SkewSec
  /\ inflight = 0 /\ pending = {} /\ mq = <<>>
  /\ \E c \in Callers : call[c].pc = "sleep" /\ call[c].last.k = "tokfail"

\* ------------------------------------------------------ tool server

\* C23: with write tools disabled, the default, no session's tool server
\* has a write tool registered, and no tool call sends a POST or a PATCH
\* to the resource API.
C23_NoWritesWhenDisabled ==
  /\ ~boolFromEnv("undefined", FALSE)
  /\ ~writeToolsEnabled =>
       /\ \A s \in DOMAIN servers :
            servers[s] \cap {"update_resource_attributes", "create_resource",
                             "set_vent_percent_open", "set_vent_percent_open_and_verify"} = {}
       /\ \A r \in upstream : r.api = "resource" => r.method \notin {"POST", "PATCH"}
       /\ tool.pc \in {"run", "done"} => tool.name \in ReadTools

\* Write tools are disabled, two sessions have their servers, resource
\* requests were sent, and a call of a write tool found no such tool.
C23_Witness ==
  /\ ~writeToolsEnabled /\ Len(servers) = 2
  /\ [api |-> "resource", method |-> "GET"] \in upstream
  /\ tool.pc = "unknown" /\ tool.name = "set_vent_percent_open" /\ tool.server = 2

\* C24: update_resource_attributes, create_resource and
\* set_vent_percent_open called with dry_run = true send no upstream
\* request, neither a token nor a resource request, and answer with the
\* payload the real call would have sent.
C24_DryRun ==
  (tool.pc = "done" /\ tool.input.dryRun) =>
    /\ tool.sent = {}
    /\ tool.out = SentPayload(tool.name, tool.input)

\* The part of C24 about requests alone.
C24_DryRunSendsNothing ==
  (tool.pc = "done" /\ tool.input.dryRun) => tool.sent = {} /\ tool.body = NoPayload

C26_Operator ==
  IF query.options.temperatureOperator = "absent" THEN "lt"
  ELSE query.options.temperatureOperator
C26_HasThreshold == query.options.thresholdTempC.given \/ query.options.thresholdTempF.given
C26_HasMin == query.options.minTempC.given \/ query.options.minTempF.given
C26_HasMax == query.options.maxTempC.given \/ query.options.maxTempF.given

\* C26: the temperature filter fails with a validation error, before any
\* upstream request, when between lacks one of its two bounds and when
\* another operator lacks its threshold; otherwise it goes on.
C26_FailsFast ==
  /\ query.pc \notin {"idle", "called"} =>
       (query.pc = "rejected" <=>
          IF C26_Operator = "between" THEN ~(C26_HasMin /\ C26_HasMax)
                                      ELSE ~C26_HasThreshold)
  /\ query.pc = "rejected" => query.requests = 0 /\ upstream = {}

\* between was asked for with a lower bound only, and the call was refused.
C26_Witness ==
  /\ query.pc = "rejected" /\ query.options.temperatureOperator = "between"
  /\ C26_HasMin /\ ~C26_HasMax /\ query.requests = 0

\* The options with the two bounds exchanged.
C27_Reversed(o) ==
  [o EXCEPT !.minTempC = o.maxTempC, !.minTempF = o.maxTempF,
            !.maxTempC = o.minTempC, !.maxTempF = o.minTempF]

\* C27: for between, the call with the two bounds in reverse order selects
\* exactly the vents the call with the bounds in order selects.
C27_BoundsOrderFree ==
  (query.pc = "done" /\ C26_Operator = "between") =>
    /\ query.out = Selected(Passed(query.via, C27_Reversed(query.options)))
    /\ \A vent \in Vents : vent.room_temperature_c.given /\ vent.percent_open = Some(50)
          /\ query.options.ventState \in {"absent", "any"} =>
         (vent \in query.out <=>
            \E lo, hi \in {5 * (query.options.minTempF.v - 32), 5 * (query.options.maxTempF.v - 32)} :
              lo <= vent.room_temperature_c.v /\ vent.room_temperature_c.v <= hi)

\* between 75 F and 65 F, given in that order, selected the vents of the
\* 65, 70 and 75 F rooms.
C27_Witness ==
  /\ query.pc = "done" /\ query.options.temperatureOperator = "between"
  /\ query.options.minTempF = Some(75) /\ query.options.maxTempF = Some(65)
  /\ {vent.room_temperature_c : vent \in query.out} = {Some(165), Some(190), Some(215)}

\* The threshold of the call under way, in ninths of a degree Celsius.
C28_Threshold ==
  IF query.options.thresholdTempC.given THEN 9 * query.options.thresholdTempC.v
  ELSE 5 * (query.options.thresholdTempF.v - 32)

\* C28: a vent with a known room temperature t passes the temperature
\* filter exactly when t < threshold for lt, t <= threshold for lte,
\* t > threshold for gt, t >= threshold for gte (between is C27's).  The
\* vents looked at are half open, which no state or percent filter of the
\* explored options other than closed removes.
C28_Comparisons ==
  (query.pc = "done" /\ C26_Operator # "between" /\ query.options.ventState # "closed") =>
    \A vent \in Vents : (vent.room_temperature_c.given /\ vent.percent_open = Some(50)) =>
      (vent \in query.out <=>
         CASE C26_Operator = "lt" -> vent.room_temperature_c.v < C28_Threshold
           [] C26_Operator = "lte" -> vent.room_temperature_c.v <= C28_Threshold
           [] C26_Operator = "gt" -> vent.room_temperature_c.v > C28_Threshold
           [] OTHER -> vent.room_temperature_c.v >= C28_Threshold)

\* lt with threshold 70 F selected vents of the 65 F room only, although
\* vents of rooms at 70 F and 75 F were there.
C28_Witness ==
  /\ query.pc = "done" /\ query.options.temperatureOperator = "lt"
  /\ query.options.thresholdTempF = Some(70) /\ ~query.options.thresholdTempC.given
  /\ {vent.room_temperature_c : vent \in query.out} = {Some(165)}

\* Whether the call's temperature test lets a vent through.
C29_TempOk(vent) ==
  IF ~vent.room_temperature_c.given THEN query.options.includeUnknownTemperature = "true"
  ELSE IF C26_Operator = "between"
    THEN \E lo, hi \in {5 * (query.options.minTempF.v - 32), 5 * (query.options.maxTempF.v - 32)} :
           lo <= vent.room_temperature_c.v /\ vent.room_temperature_c.v <= hi
  ELSE CASE C26_Operator = "lt" -> vent.room_temperature_c.v < C28_Threshold
         [] C26_Operator = "lte" -> vent.room_temperature_c.v <= C28_Threshold
         [] C26_Operator = "gt" -> vent.room_temperature_c.v > C28_Threshold
         [] OTHER -> vent.room_temperature_c.v >= C28_Threshold

\* Open: percent_open > 0 when reported, else the is_open flag.
C29_Open(vent) ==
  IF vent.percent_open.given THEN vent.percent_open.v > 0 ELSE vent.is_open = "true"

C30_ClosedVents ==
  (/\ query.pc = "done" /\ query.via = "tool" /\ query.options.ventState = "closed"
   /\ ~query.options.minPercentOpen.given /\ ~query.options.maxPercentOpen.given) =>
    \A vent \in Vents :
      (vent.percent_open = Some(0) /\ vent.room_temperature_c.given /\ C29_TempOk(vent))
        => vent \in query.out

\* The least percent_open the call lets through: the caller's bound, else 1
\* through the tool or when open vents are asked for, else 0.
C31_MinPercent ==
  IF query.options.minPercentOpen.given THEN query.options.minPercentOpen.v
  ELSE IF query.via = "tool" \/ query.options.ventState \in {"absent", "open"} THEN 1
  ELSE 0

\* Whether a vent passes the call's vent-state and percent-open constraints.
C31_StateAndPercentOk(vent) ==
  /\ query.options.ventState \in {"absent", "open"} => C29_Open(vent)
  /\ query.options.ventState = "closed" => ~C29_Open(vent)
  /\ vent.percent_open.given =>
       /\ vent.percent_open.v >= C31_MinPercent
       /\ query.options.maxPercentOpen.given =>
            vent.percent_open.v <= query.options.maxPercentOpen.v

\* C31: a vent with no room temperature never appears in the
\* temperature-filtered result unless the caller set
\* include_unknown_temperature, and when that option is set such a vent
\* appears exactly when it passes the vent-state and percent-open
\* constraints.
C31_UnknownTemperature ==
  query.pc = "done" =>
    \A vent \in Vents :
      ~vent.room_temperature_c.given =>
        (vent \in query.out <=>
           /\ query.options.includeUnknownTemperature = "true"
           /\ C31_StateAndPercentOk(vent))

\* The option was set, and of the vents without a room temperature an open
\* one was returned while the one at 0 percent was not.
C31_Witness ==
  /\ query.pc = "done" /\ query.options.includeUnknownTemperature = "true"
  /\ VentOf(Some(50), Absent) \in query.out
  /\ VentOf(Some(0), Absent) \notin query.out

\* The page cap of the scan under way: the maxPages given, else 10.
C32_Cap == IF scan.maxPages.given THEN scan.maxPages.v ELSE 10

\* Whether a room's readings are kept: every room when no room ids were
\* passed, else the rooms passed.
C32_Kept(r) == scan.roomIds = {} \/ r \in scan.roomIds

\* The reading of the first row of a page that belongs to a room.
C32_First(rows, r) ==
  rows[CHOOSE i \in DOMAIN rows :
         rows[i].room = r /\ \A j \in 1..(i - 1) : rows[j].room # r].val

\* A step of the scan: an entry of statsByRoom never changes; when a page
\* is read, a kept room without an entry takes the first reading the page
\* has for it, and no other room gets an entry.
C32_KeepsFirst ==
  \A r \in Rooms :
    /\ scan.statsByRoom[r] # 0 => scan'.statsByRoom[r] = scan.statsByRoom[r]
    /\ (scan.pc = "page" /\ scan'.pc \in {"page", "done"} /\ scan.statsByRoom[r] = 0) =>
         scan'.statsByRoom[r] =
           IF C32_Kept(r) /\ \E i \in DOMAIN scan'.rows : scan'.rows[i].room = r
             THEN C32_First(scan'.rows, r)
             ELSE 0

\* A step of the scan: a page is requested only while some requested room
\* has no reading yet.
C32_StopsWhenComplete ==
  scan'.page > scan.page => \E r \in scan'.roomIds : scan.statsByRoom[r] = 0

\* C32: the latest-room-telemetry scan keeps, for each requested room id,
\* the first reading met in scan order (a later reading never replaces it),
\* requests at most the page cap of pages, and requests no further page
\* once every requested room has a reading.
C32_LatestScan ==
  /\ [](scan.page <= C32_Cap)
  /\ [][C32_KeepsFirst /\ C32_StopsWhenComplete]_vars

\* What holds of the scan: with at least one room id passed, all of the
\* above; with none, the first reading of every room is kept and the page
\* cap is respected.
C32_LatestScanOfRooms ==
  /\ [](scan.page <= C32_Cap)
  /\ [][C32_KeepsFirst /\ (scan'.roomIds # {} => C32_StopsWhenComplete)]_vars

\* No room id was passed, and a second page was requested.
C32_Witness ==
  /\ scan.roomIds = {} /\ scan.page = 2

\* C33: every health request in deep mode performs one live upstream call
\* and reports ok = true exactly when that call succeeded; when it fails the
\* report is unhealthy (ok = false, HTTP 503) and the process keeps serving
\* later requests, while a non-deep health request performs no upstream
\* call.
C33_DeepHealth ==
  health.pc = "done" =>
    /\ health.deep =>
         /\ health.calls = 1
         /\ health.report.ok <=> health.outcome = "ok"
         /\ health.outcome = "failed" => health.report.code = 503
         /\ ENABLED HealthRequest
    /\ ~health.deep => health.calls = 0

\* What holds of a health request: a deep one makes one upstream call
\* while the root links are not cached and none once they are, when it
\* reports ok without having asked upstream; a failed call gives ok = false
\* and 503, and the next request is served; a request that is not deep
\* makes no call and reports ok.
C33_DeepHealthUnlessCached ==
  health.pc = "done" =>
    /\ health.deep =>
         /\ health.calls <= 1
         /\ health.calls = 0 => (apiRootCache # 0 /\ health.report.ok)
         /\ health.report.ok <=> health.outcome = "ok"
         /\ health.report.code = IF health.outcome = "ok" THEN 200 ELSE 503
         /\ ENABLED HealthRequest
    /\ ~health.deep => (health.calls = 0 /\ health.report.ok /\ health.report.code = 200)

\* C34: the failure part of a deep health report carries only the error's
\* message, status code and retryable flag, and nothing else of the
\* upstream error (no upstream response body or other detail).
C34_NoErrorInternals ==
  (health.pc = "done" /\ health.outcome = "failed") =>
    ~health.report.deep.error.details.given

\* The token status a report must carry, from the record's presence and
\* expiry alone.
C35_TokenStatus ==
  [hasToken |-> token # NoToken,
   expiresAt |-> IF token # NoToken THEN [given |-> TRUE, v |-> token.left]
                                    ELSE [given |-> FALSE, v |-> 0],
   secondsRemaining |-> IF token # NoToken /\ token.left > 0 THEN token.left ELSE 0]

\* A health request is answered in this step.
C35_Responds == health' # health /\ health'.pc = "done"

\* The report of the request answered in this step, member by member.
C35_Step ==
  C35_Responds =>
    /\ DOMAIN health'.report = {"ok", "code", "writeToolsEnabled", "sessions", "flair", "deep"}
    /\ health'.report.flair.token = C35_TokenStatus'
    /\ health'.report.flair.apiRootCache = [cached |-> apiRootCache' # 0]
    /\ health'.report.sessions = Cardinality(DOMAIN sessions')
    /\ health'.report.writeToolsEnabled = writeToolsEnabled'
    /\ health'.report.ok = (health'.outcome = "ok")
    /\ health'.report.code = IF health'.outcome = "ok" THEN 200 ELSE 503
    /\ health'.report.deep.ok = (health'.outcome = "ok")
    /\ health'.outcome = "ok" => health'.report.deep.error = "none"
    /\ health'.outcome = "failed" =>
         /\ health'.report.deep.error.message \in {"status", "failed", "links"}
         /\ health'.report.deep.error.statusCode \in
              {[given |-> FALSE, v |-> 0], [given |-> TRUE, v |-> 401], [given |-> TRUE, v |-> 503]}
         /\ health'.report.deep.error.details.v \in {"", "body", "flatten"}
         /\ health'.report.deep.error.retryable \in {"true", "false"}

\* C35: the token status and the health/status report depend only on
\* whether a token is cached, its expiry, the current time, the session
\* count and the root-cache state: two runs that differ only in the value
\* of the access token produce identical status and health reports. Every
\* member of a report is what is rebuilt here from the record's presence
\* and expiry, the request's outcome, the configuration, the session count
\* and the root-cache state, so the value of the access token has no part
\* in it.
C35_NoTokenValue == [][C35_Step]_vars

\* A report was given while a token with a value was cached and had time
\* left.
C35_Witness ==
  /\ health.pc = "done" /\ token # NoToken
  /\ health.report.flair.token.hasToken /\ health.report.flair.token.secondsRemaining > 0
  /\ token.accessToken = 2

\* Whether red is orig with the value under every sensitive key, at any
\* depth, replaced by the marker and everything else as it was.
RECURSIVE C36_Redacted(_, _)
C36_Redacted(orig, red) ==
  /\ red.t = orig.t
  /\ red.s = orig.s
  /\ Len(red.items) = Len(orig.items)
  /\ \A i \in DOMAIN orig.items :
       /\ red.items[i].key = orig.items[i].key
       /\ IF orig.t = "object" /\ SENSITIVE_KEY(orig.items[i].key)
            THEN red.items[i].item = [t |-> "scalar", s |-> "[REDACTED]", items |-> <<>>]
            ELSE C36_Redacted(orig.items[i].item, red.items[i].item)

\* C36: every tool output passes through recursive redaction before it is
\* emitted: at every nesting depth, through objects and arrays, the value
\* under any key matching the sensitive-key pattern is replaced by the
\* redaction marker and every other value is unchanged; redacting an
\* already redacted document changes nothing.
C36_Redaction ==
  output.pc = "emitted" =>
    /\ C36_Redacted(output.data, output.text)
    /\ redactSensitive(output.text) = output.text

\* {accessToken: [{access_token: value}]} was emitted as {accessToken:
\* [{access_token: [REDACTED]}]}: a sensitive key inside an array inside an
\* object under a key the pattern does not match.
C36_Witness ==
  /\ output.pc = "emitted"
  /\ output.data = ObjectOf(<<Entry(<<"access", "Token">>,
                     ArrayOf(<<ObjectOf(<<Entry(<<"access", "_", "token">>, Scalar("value"))>>)>>))>>)
  /\ output.text = ObjectOf(<<Entry(<<"access", "Token">>,
                     ArrayOf(<<ObjectOf(<<Entry(<<"access", "_", "token">>, Scalar("[REDACTED]"))>>)>>))>>)

\* C37: running the id dedup pass on its own output returns the same list
\* in the same order and reports zero duplicates, for every input list; on
\* any input, the kept items plus the reported duplicate count equal the
\* input length.
C37_DedupIdempotent ==
  /\ dedupe.pc \in {"once", "twice"} =>
       Len(dedupe.first.unique) + dedupe.first.duplicates = Len(dedupe.resources)
  /\ dedupe.pc = "twice" =>
       /\ dedupe.second.unique = dedupe.first.unique
       /\ dedupe.second.duplicates = 0

\* The list 1, 2, 1, 2 lost two resources in the first pass and none
\* in the second.
C37_Witness ==
  /\ dedupe.pc = "twice"
  /\ dedupe.resources = <<1, 2, 1, 2>>
  /\ dedupe.first = [unique |-> <<1, 2>>, duplicates |-> 2]
  /\ dedupe.second = [unique |-> <<1, 2>>, duplicates |-> 0]

\* The seconds a numeric Retry-After header of the failed response asked
\* for (-1: no such header).
C38_Asked ==
  IF backoff.via = "status" /\ backoff.header \in {"0", "1", "30"}
    THEN (CASE backoff.header = "0" -> 0 [] backoff.header = "1" -> 1 [] OTHER -> 30)
    ELSE -1

\* retryBase * 2^(k-1) for the retry the wait precedes
C38_Exp == backoff.base * 2 ^ (backoff.attempt - 1)

\* C38: before retry number k the executor waits retryBase * 2^(k-1) plus
\* a jitter of 0 to 150 ms; when the failed 429/5xx response carried a
\* Retry-After of s seconds the wait is s * 1000 ms, so the wait is never
\* shorter than what upstream asked for.
C38_Backoff ==
  backoff.pc = "wait" =>
    /\ C38_Asked >= 0 => backoff.wait = C38_Asked * 1000
    /\ C38_Asked < 0 => (C38_Exp <= backoff.wait /\ backoff.wait <= C38_Exp + 150)

\* C38 as it holds: a Retry-After of s > 0 seconds gives a wait of
\* s * 1000 ms; without the header, with Retry-After: 0 or with one that
\* is not a number of seconds the wait is retryBase * 2^(k-1) plus a jitter
\* of 0 to 150 ms; the wait is never shorter than the seconds asked for.
C38_BackoffPositiveRetryAfter ==
  backoff.pc = "wait" =>
    /\ C38_Asked > 0 => backoff.wait = C38_Asked * 1000
    /\ C38_Asked <= 0 => (C38_Exp <= backoff.wait /\ backoff.wait <= C38_Exp + 149)
    /\ C38_Asked >= 0 => backoff.wait >= C38_Asked * 1000

\* The third retry of a call with retryBaseMs 1 followed a response with
\* Retry-After: 30 and waits 30000 ms, not 4 ms and a jitter.
C38_Witness ==
  /\ backoff.pc = "wait" /\ backoff.attempt = 3 /\ backoff.base = 1
  /\ backoff.via = "status" /\ backoff.header = "30"
  /\ backoff.wait = 30000

\* A step of the token manager: the registration of a refresh is cleared
\* or replaced only once its token request has been answered; a token
\* request is sent only while none is outstanding; and a caller that
\* begins to wait while one is outstanding waits for that one.
C39_Step ==
  /\ (inflight # 0 /\ inflight' # inflight) => inflight \notin pending
  /\ pending' \ pending # {} => pending = {}
  /\ (Len(waiting') = Len(waiting) + 1 /\ pending # {}) =>
       (pending' = pending /\ waiting'[Len(waiting')].p \in pending)

\* C39: at every moment at most one upstream token request is outstanding,
\* over any number of successive refresh rounds: a caller resuming from an
\* earlier refresh (successful or failed) never clears the registration of
\* a newer refresh that is still in flight, so a later caller always joins
\* the outstanding refresh instead of starting a second one.
C39_OneRefreshAtATime ==
  /\ [](\A p, q \in pending : p = q)
  /\ [][C39_Step]_vars

\* A later round: a token obtained by an earlier refresh is cached and no
\* longer valid, one token request is outstanding, and two callers wait
\* for it.
C39_Witness ==
  /\ token # NoToken
  /\ pending = {inflight}
  /\ Len(waiting) = 2
  /\ \A i \in DOMAIN waiting : waiting[i].p = inflight

\* The ids of the devices of the upstream collection that are in the room
\* and the structure asked for.
C40_Matching ==
  {devices.collection[i].id : i \in
     {j \in DOMAIN devices.collection :
        /\ devices.roomId # 0 => devices.collection[j].room = devices.roomId
        /\ devices.structureId # 0 => devices.collection[j].structure = devices.structureId}}

\* C40: list_devices called with a room or structure filter and
\* max_items = N returns N devices whenever at least N distinct upstream
\* devices match the filter, and otherwise returns every matching device;
\* the reported summary.count always equals the number of devices returned.
C40_ListDevices ==
  (/\ devices.pc = "returned"
   /\ devices.roomId # 0 \/ devices.structureId # 0
   /\ ~devices.activeOnly) =>
    /\ Len(devices.devices) = IF Cardinality(C40_Matching) >= devices.maxItems
                                THEN devices.maxItems
                                ELSE Cardinality(C40_Matching)
    /\ devices.count = Len(devices.devices)

\* What does hold of a filtered listing: the devices returned are distinct
\* matching devices, at most max_items of them, and summary.count is their
\* number.
C40_CountAndCap ==
  (/\ devices.pc = "returned"
   /\ devices.roomId # 0 \/ devices.structureId # 0
   /\ ~devices.activeOnly) =>
    /\ devices.count = Len(devices.devices)
    /\ Len(devices.devices) <= devices.maxItems
    /\ \A i \in DOMAIN devices.devices : devices.devices[i] \in C40_Matching
    /\ \A i, j \in DOMAIN devices.devices : devices.devices[i] = devices.devices[j] => i = j
====
